---- MODULE Spec2Model ----
(***************************************************************************)
(* Model of the switcher input parser (InputParser): the single-pass scan  *)
(* of the raw input, the precedence resolution of the commands it finds,   *)
(* and the validation pass that asks the handlers to confirm a command;    *)
(* of the dispatch of the resolved mode by ModeHandler.updateSuggestions   *)
(* and the modal; and of the HandlerRegistry singleton.                    *)
(* Strings are sequences of UTF-16 code units, indices are 0-based as in   *)
(* the source (a TLA+ sequence position is the index plus one).            *)
(***************************************************************************)
EXTENDS Integers, Sequences, FiniteSets, TLC

\* Longest raw input the user types.
MaxInputLen == 4

\* Most HandlerRegistry objects created, most ModeHandlers constructed.
MaxInstances == 3

MaxModeHandlers == 3

\* Code units that occur in inputs and triggers: four of the basic plane,
\* and the high ("H") and low ("L") surrogate of a character outside it.
Chars == {"a", "b", "@", "!", "H", "L"}

\* A string in which every surrogate is half of a pair.
isWellFormed(s) ==
  \A j \in 1..Len(s) :
    /\ s[j] = "H" => (j < Len(s) /\ s[j + 1] = "L")
    /\ s[j] = "L" => (j > 1 /\ s[j - 1] = "H")

\* What the user types into the input field.
Inputs ==
  {s \in UNION {[1..n -> Chars] : n \in 0..MaxInputLen} : isWellFormed(s)}

\* ---------------------------------------------------------------------------
\* Command definitions (CommandDefinition / ParserCommand)
\* ---------------------------------------------------------------------------

Standard == "Standard"

StandardDef ==
  [mode |-> "Standard", type |-> "none", cmdStr |-> <<>>,
   useActiveEditorAsSource |-> "undefined"]

EditorDef ==
  [mode |-> "EditorList", type |-> "prefix", cmdStr |-> <<"a">>,
   useActiveEditorAsSource |-> "undefined"]

WorkspaceDef ==
  [mode |-> "WorkspaceList", type |-> "prefix", cmdStr |-> <<"a", "a">>,
   useActiveEditorAsSource |-> "undefined"]

SymbolDef ==
  [mode |-> "SymbolList", type |-> "sourced", cmdStr |-> <<"@">>,
   useActiveEditorAsSource |-> "undefined"]

SymbolActiveDef ==
  [mode |-> "SymbolList", type |-> "prefix", cmdStr |-> <<"a">>,
   useActiveEditorAsSource |-> "true"]

RelatedItemsDef ==
  [mode |-> "RelatedItemsList", type |-> "sourced", cmdStr |-> <<"b">>,
   useActiveEditorAsSource |-> "undefined"]

HeadingsDef ==
  [mode |-> "HeadingsList", type |-> "prefix", cmdStr |-> <<"b">>,
   useActiveEditorAsSource |-> "undefined"]

\* A symbol command whose trigger is one character of two code units.
EmojiSymbolDef ==
  [mode |-> "SymbolList", type |-> "sourced", cmdStr |-> <<"H", "L">>,
   useActiveEditorAsSource |-> "undefined"]

\* A definition of type none that has a command string all the same.
NoneWithCmdStrDef ==
  [mode |-> "CommandList", type |-> "none", cmdStr |-> <<"b">>,
   useActiveEditorAsSource |-> "undefined"]

\* A prefix command whose trigger ends with the trigger of the symbol command.
VaultDef ==
  [mode |-> "VaultList", type |-> "prefix", cmdStr |-> <<"a", "@">>,
   useActiveEditorAsSource |-> "undefined"]

\* The related items command, given the trigger of the symbol command.
RelatedItemsSameDef ==
  [mode |-> "RelatedItemsList", type |-> "sourced", cmdStr |-> <<"@">>,
   useActiveEditorAsSource |-> "undefined"]

\* The configurations the parser is constructed with: the definitions list,
\* the modes the handler registry has a handler for, and the escape marker.
Configs ==
  { \* overlapping prefix triggers, the shorter one defined first
    [defs |-> <<StandardDef, EditorDef, SymbolDef, WorkspaceDef>>,
     handlers |-> {"Standard", "EditorList", "SymbolList", "WorkspaceList"},
     escapeCmdChar |-> <<"!">>],
    \* the same triggers, the longer one defined first
    [defs |-> <<WorkspaceDef, SymbolDef, EditorDef, StandardDef>>,
     handlers |-> {"Standard", "EditorList", "SymbolList", "WorkspaceList"},
     escapeCmdChar |-> <<"!">>],
    \* two sourced commands and the active-editor (prefix) variant of one
    [defs |-> <<SymbolDef, SymbolActiveDef, RelatedItemsDef>>,
     handlers |-> {"SymbolList", "RelatedItemsList"},
     escapeCmdChar |-> <<"!">>],
    \* a registry that has no handler for the symbol mode
    [defs |-> <<EditorDef, SymbolDef, RelatedItemsDef>>,
     handlers |-> {"EditorList", "RelatedItemsList"},
     escapeCmdChar |-> <<"!">>],
    \* a trigger of two code units, and the headings command
    [defs |-> <<StandardDef, HeadingsDef, EmojiSymbolDef>>,
     handlers |-> {"Standard", "HeadingsList", "SymbolList"},
     escapeCmdChar |-> <<"!">>],
    \* a definition of type none with a non-empty command string
    [defs |-> <<StandardDef, SymbolDef, NoneWithCmdStrDef>>,
     handlers |-> {"Standard", "SymbolList", "CommandList"},
     escapeCmdChar |-> <<"!">>],
    \* a sourced trigger that is the tail of a longer prefix trigger
    [defs |-> <<StandardDef, SymbolDef, VaultDef>>,
     handlers |-> {"Standard", "SymbolList", "VaultList"},
     escapeCmdChar |-> <<"!">>],
    \* definitions with the same trigger: two sourced ones, two prefix ones
    [defs |-> <<StandardDef, SymbolDef, RelatedItemsSameDef, SymbolActiveDef,
                EditorDef>>,
     handlers |-> {"Standard", "SymbolList", "RelatedItemsList",
                   "EditorList"},
     escapeCmdChar |-> <<"!">>],
    \* an escape marker of two code units
    [defs |-> <<StandardDef, SymbolDef, EditorDef>>,
     handlers |-> {"Standard", "SymbolList", "EditorList"},
     escapeCmdChar |-> <<"!", "!">>] }

\* The modes of the definitions above.
Modes ==
  {"Standard", "EditorList", "WorkspaceList", "SymbolList", "RelatedItemsList",
   "HeadingsList", "CommandList", "VaultList"}

\* settings.preserveQuickSwitcherLastInput and
\* settings.preserveCommandPaletteLastInput
Settings ==
  [preserveQuickSwitcherLastInput : BOOLEAN,
   preserveCommandPaletteLastInput : BOOLEAN]

DefaultSettings ==
  [preserveQuickSwitcherLastInput |-> FALSE,
   preserveCommandPaletteLastInput |-> FALSE]

\* No keydown event has reached the modal yet.
NoKeydown ==
  [evt |-> [key |-> "", ctrlKey |-> FALSE, metaKey |-> FALSE,
            altKey |-> FALSE, shiftKey |-> FALSE],
   commands |-> <<>>, effects |-> <<>>]

\* The entry of previousInputHistory for a mode without one.
NoInput == [has |-> FALSE, inputText |-> <<>>]

\* No setInitialInputForSession call since the last setSessionOpenMode. A
\* call is recorded with the session's mode at the call and the value of the
\* input field before and after it; calls counts the calls and writes those
\* made with a session mode, both up to 2.
NoCalls ==
  [mode |-> "null", before |-> <<>>, after |-> <<>>, calls |-> 0,
   writes |-> 0]

\* ---------------------------------------------------------------------------
\* String helpers
\* ---------------------------------------------------------------------------

\* String.prototype.startsWith(t, index)
startsWith(s, t, index) ==
  /\ index + Len(t) <= Len(s)
  /\ \A j \in 1..Len(t) : s[index + j] = t[j]

\* String.prototype.substring(start)
substring(s, start) ==
  IF start >= Len(s) THEN <<>> ELSE SubSeq(s, start + 1, Len(s))

\* ---------------------------------------------------------------------------
\* buildCommandMap / findCommandMatch
\* ---------------------------------------------------------------------------

Null ==
  [cmdDef |-> [mode |-> "null", type |-> "null", cmdStr |-> <<>>,
               useActiveEditorAsSource |-> "undefined"],
   cmdStr |-> <<>>]

\* MappedCommand entries of the definitions with a non-empty command string,
\* in definition order.
mappedCommands(commandDefinitions) ==
  LET mapped == [n \in 1..Len(commandDefinitions) |->
                   [cmdDef |-> commandDefinitions[n],
                    cmdStr |-> commandDefinitions[n].cmdStr]]
  IN SelectSeq(mapped, LAMBDA m : Len(m.cmdStr) > 0)

RECURSIVE sortByLengthDesc(_, _)
\* commands.sort((a, b) => b.cmdStr.length - a.cmdStr.length): a stable sort,
\* longest first; len is the longest length still to be placed.
sortByLengthDesc(commands, len) ==
  IF len = 0 THEN <<>>
  ELSE SelectSeq(commands, LAMBDA m : Len(m.cmdStr) = len)
         \o sortByLengthDesc(commands, len - 1)

maxCmdLen(commands) ==
  IF Len(commands) = 0 THEN 0
  ELSE CHOOSE n \in {Len(commands[j].cmdStr) : j \in 1..Len(commands)} :
         \A j \in 1..Len(commands) : Len(commands[j].cmdStr) <= n

\* The group of one first character, as the first pass leaves it.
commandGroup(commandDefinitions, firstChar) ==
  SelectSeq(mappedCommands(commandDefinitions),
            LAMBDA m : m.cmdStr[1] = firstChar)

\* A map whose groups are left in definition order.
buildCommandMapUnsorted(commandDefinitions) ==
  [firstChar \in Chars |-> commandGroup(commandDefinitions, firstChar)]

buildCommandMap(commandDefinitions) ==
  [firstChar \in Chars |->
     LET commands == commandGroup(commandDefinitions, firstChar)
     IN sortByLengthDesc(commands, maxCmdLen(commands))]

\* A match that, of the entries with the command string of the first hit,
\* takes the one that comes last.
firstMatchLatestDefinition(potentialCommands, inputText, index) ==
  LET hits == {n \in 1..Len(potentialCommands) :
                 startsWith(inputText, potentialCommands[n].cmdStr, index)}
      first == CHOOSE n \in hits : \A m \in hits : n <= m
      same == {n \in hits :
                 potentialCommands[n].cmdStr = potentialCommands[first].cmdStr}
  IN IF hits = {} THEN Null
     ELSE potentialCommands[CHOOSE n \in same : \A m \in same : m <= n]

\* The first entry of potentialCommands that the input starts with at index.
firstMatch(potentialCommands, inputText, index) ==
  LET hits == {n \in 1..Len(potentialCommands) :
                 startsWith(inputText, potentialCommands[n].cmdStr, index)}
  IN IF hits = {} THEN Null
     ELSE potentialCommands[CHOOSE n \in hits : \A m \in hits : n <= m]

findCommandMatch(map, inputText, index) ==
  IF index >= Len(inputText) THEN Null
  ELSE firstMatch(map[inputText[index + 1]], inputText, index)

\* ---------------------------------------------------------------------------
\* parse: one iteration of the scan loop, and the whole scan
\* ---------------------------------------------------------------------------

\* The loop state of parse: the read cursor, the clean input built so far and
\* the commands found so far.
scanStart == [i |-> 0, cleanInput |-> <<>>, foundCommands |-> <<>>]

\* An escaped command that is recorded as a command all the same.
escapedCommandRecorded(st, match, escapeLen) ==
  [i |-> st.i + escapeLen + Len(match.cmdStr),
   cleanInput |-> st.cleanInput \o match.cmdStr,
   foundCommands |->
     Append(st.foundCommands,
            [cmdDef |-> match.cmdDef, cmdStr |-> match.cmdStr,
             indexInCleanInput |-> Len(st.cleanInput)])]

\* Case 1: a command string preceded by the escape marker is literal text.
escapedCommand(st, match, escapeLen) ==
  [i |-> st.i + escapeLen + Len(match.cmdStr),
   cleanInput |-> st.cleanInput \o match.cmdStr,
   foundCommands |-> st.foundCommands]

\* A regular command that is recorded but not copied to the clean input.
regularCommandNotCopied(st, match) ==
  [i |-> st.i + Len(match.cmdStr),
   cleanInput |-> st.cleanInput,
   foundCommands |->
     Append(st.foundCommands,
            [cmdDef |-> match.cmdDef, cmdStr |-> match.cmdStr,
             indexInCleanInput |-> Len(st.cleanInput)])]

\* A regular command recorded at its index in the raw input.
regularCommandRawIndex(st, match) ==
  [i |-> st.i + Len(match.cmdStr),
   cleanInput |-> st.cleanInput \o match.cmdStr,
   foundCommands |->
     Append(st.foundCommands,
            [cmdDef |-> match.cmdDef, cmdStr |-> match.cmdStr,
             indexInCleanInput |-> st.i])]

\* A regular command after which the scan goes on behind its first code unit.
regularCommandOneCodeUnit(st, match) ==
  [i |-> st.i + 1,
   cleanInput |-> Append(st.cleanInput, match.cmdStr[1]),
   foundCommands |->
     Append(st.foundCommands,
            [cmdDef |-> match.cmdDef, cmdStr |-> match.cmdStr,
             indexInCleanInput |-> Len(st.cleanInput)])]

\* Case 2: a regular command is recorded at the current clean length.
regularCommand(st, match) ==
  [i |-> st.i + Len(match.cmdStr),
   cleanInput |-> st.cleanInput \o match.cmdStr,
   foundCommands |->
     Append(st.foundCommands,
            [cmdDef |-> match.cmdDef, cmdStr |-> match.cmdStr,
             indexInCleanInput |-> Len(st.cleanInput)])]

\* A literal step that copies a whole code point: both code units of a
\* surrogate pair at once.
literalCodePoint(st, inputText) ==
  LET isPair == /\ inputText[st.i + 1] = "H"
                /\ st.i + 1 < Len(inputText)
                /\ inputText[st.i + 2] = "L"
      units == IF isPair THEN 2 ELSE 1
  IN [i |-> st.i + units,
      cleanInput |->
        st.cleanInput \o SubSeq(inputText, st.i + 1, st.i + units),
      foundCommands |-> st.foundCommands]

\* A literal step that moves on without copying the code unit.
literalCharDropped(st, inputText) ==
  [i |-> st.i + 1,
   cleanInput |-> st.cleanInput,
   foundCommands |-> st.foundCommands]

\* Case 3: a literal character, inputText[i].
literalChar(st, inputText) ==
  [i |-> st.i + 1,
   cleanInput |-> Append(st.cleanInput, inputText[st.i + 1]),
   foundCommands |-> st.foundCommands]

\* A loop body in which the escape marker makes any following code unit
\* literal, command or not.
parseStepEscapesAnything(map, escapeChar, inputText, st) ==
  LET escapeLen == Len(escapeChar)
      isEscape == /\ startsWith(inputText, escapeChar, st.i)
                  /\ st.i + escapeLen < Len(inputText)
      escaped == IF isEscape
                   THEN findCommandMatch(map, inputText, st.i + escapeLen)
                   ELSE Null
      match == findCommandMatch(map, inputText, st.i)
  IN IF escaped # Null THEN escapedCommand(st, escaped, escapeLen)
     ELSE IF isEscape
       THEN [i |-> st.i + escapeLen + 1,
             cleanInput |->
               Append(st.cleanInput, inputText[st.i + escapeLen + 1]),
             foundCommands |-> st.foundCommands]
     ELSE IF match # Null THEN regularCommand(st, match)
     ELSE literalChar(st, inputText)

\* A loop body that copies the escape marker of an escaped trigger to the
\* clean input.
parseStepKeepsMarker(map, escapeChar, inputText, st) ==
  LET escapeLen == Len(escapeChar)
      escaped == IF startsWith(inputText, escapeChar, st.i)
                   THEN findCommandMatch(map, inputText, st.i + escapeLen)
                   ELSE Null
      match == findCommandMatch(map, inputText, st.i)
  IN IF escaped # Null
       THEN [i |-> st.i + escapeLen + Len(escaped.cmdStr),
             cleanInput |-> st.cleanInput \o escapeChar \o escaped.cmdStr,
             foundCommands |-> st.foundCommands]
     ELSE IF match # Null THEN regularCommand(st, match)
     ELSE literalChar(st, inputText)

\* The body of the while loop of parse, for a cursor i < inputText.length.
parseStep(map, escapeChar, inputText, st) ==
  LET escapeLen == Len(escapeChar)
      escaped == IF startsWith(inputText, escapeChar, st.i)
                   THEN findCommandMatch(map, inputText, st.i + escapeLen)
                   ELSE Null
      match == findCommandMatch(map, inputText, st.i)
  IN IF escaped # Null THEN escapedCommand(st, escaped, escapeLen)
     ELSE IF match # Null THEN regularCommand(st, match)
     ELSE literalChar(st, inputText)

RECURSIVE scanFrom(_, _, _, _)
scanFrom(map, escapeChar, inputText, st) ==
  IF st.i < Len(inputText)
    THEN scanFrom(map, escapeChar, inputText,
                  parseStep(map, escapeChar, inputText, st))
    ELSE st

\* ---------------------------------------------------------------------------
\* resolveCommandPrecedence
\* ---------------------------------------------------------------------------

\* A filter text that starts one code unit behind the index of the command.
toResolvedCommandOneCodeUnit(cmd, cleanInput) ==
  [cmdDef |-> cmd.cmdDef, cmdStr |-> cmd.cmdStr,
   indexInCleanInput |-> cmd.indexInCleanInput,
   filterText |-> substring(cleanInput, cmd.indexInCleanInput + 1)]

\* The ResolvedCommand of a found command: its filter text is the rest of the
\* clean input behind the command string.
toResolvedCommand(cmd, cleanInput) ==
  [cmdDef |-> cmd.cmdDef, cmdStr |-> cmd.cmdStr,
   indexInCleanInput |-> cmd.indexInCleanInput,
   filterText |-> substring(cleanInput, cmd.indexInCleanInput + Len(cmd.cmdStr))]

\* A prefix test that forgets the index.
isPrefixCandidateAnywhere(cmd) ==
  cmd.cmdDef.type = "prefix"

\* The found commands kept as the prefix command: the first one of type
\* prefix at index 0 (the !prefix test keeps the earliest).
isPrefixCandidate(cmd) ==
  cmd.cmdDef.type = "prefix" /\ cmd.indexInCleanInput = 0

RECURSIVE sortByIndex(_, _)
\* sourced.sort((a, b) => a.indexInCleanInput - b.indexInCleanInput): a stable
\* sort, smallest index first; from is the smallest index still to be placed.
sortByIndex(sourced, from) ==
  IF \A n \in 1..Len(sourced) : sourced[n].indexInCleanInput < from THEN <<>>
  ELSE SelectSeq(sourced, LAMBDA c : c.indexInCleanInput = from)
         \o sortByIndex(sourced, from + 1)

\* A resolution that puts the prefix command first.
resolveCommandPrecedencePrefixFirst(foundCommands, cleanInput) ==
  LET all == [n \in 1..Len(foundCommands) |->
                toResolvedCommand(foundCommands[n], cleanInput)]
      candidates == SelectSeq(all, isPrefixCandidate)
      sourced == SelectSeq(all, LAMBDA c : c.cmdDef.type = "sourced")
      sorted == sortByIndex(sourced, 0)
  IN IF Len(candidates) > 0 THEN <<candidates[1]>> \o sorted ELSE sorted

resolveCommandPrecedence(foundCommands, cleanInput) ==
  LET all == [n \in 1..Len(foundCommands) |->
                toResolvedCommand(foundCommands[n], cleanInput)]
      candidates == SelectSeq(all, isPrefixCandidate)
      sourced == SelectSeq(all, LAMBDA c : c.cmdDef.type = "sourced")
      sorted == sortByIndex(sourced, 0)
  IN IF Len(candidates) > 0 THEN Append(sorted, candidates[1]) ELSE sorted

\* parse(inputText): the ParsedResult.
parse(map, escapeChar, inputText) ==
  LET st == scanFrom(map, escapeChar, inputText, scanStart)
  IN [cleanInput |-> st.cleanInput,
      resolvedCommands |-> resolveCommandPrecedence(st.foundCommands, st.cleanInput)]

\* ---------------------------------------------------------------------------
\* Handler registry and handlers (collaborators of the parser)
\* ---------------------------------------------------------------------------

\* HandlerRegistry.getHandler(mode): the handler registered for the mode (a
\* handler is identified by its mode), or null.
getHandler(registry, mode) ==
  IF mode \in registry THEN mode ELSE "null"

\* The handlers of the modes that have a command of type sourced.
sourcedHandlers(commandDefs, registry) ==
  {commandDefs[n].mode : n \in {m \in 1..Len(commandDefs) :
                                  commandDefs[m].type = "sourced"}}
    \cap registry

\* HandlerRegistry.resetSourcedHandlers(excludeHandlers): the handlers whose
\* reset() is invoked.
resetSourcedHandlers(commandDefs, registry, excludeHandlers) ==
  sourcedHandlers(commandDefs, registry) \ excludeHandlers

\* What a call of Handler.validateCommand can do: report the command as
\* validated or not, and assign its own mode to inputInfo.mode or leave the
\* mode alone.
ParsedCommands == [isValidated : BOOLEAN, setsMode : BOOLEAN]

\* ---------------------------------------------------------------------------
\* State
\* ---------------------------------------------------------------------------

VARIABLES
  commandDefinitions,   \* the definitions the parser was constructed with
  handlerRegistry,      \* the modes the registry has a handler for
  escapeCmdChar,        \* InputParser.escapeCmdChar
  commandMap,           \* InputParser.commandMap
  inputInfo,            \* the InputInfo of the current call
  sessionOpts,          \* inputInfo.sessionOpts, shared by all calls
  scan,                 \* parse: i, cleanInput, foundCommands
  resolvedCommands,     \* the list parse returned
  next,                 \* findFirstValidCommand: position of the next entry
  wasCommandValidated,  \* the result of findFirstValidCommand
  validateCalls,        \* the validateCommand calls of the current call
  resetCalls,           \* the resetSourcedHandlers calls of the current call
  resetHandlers,        \* handlers whose reset() ran in the current call
  handled,              \* what ModeHandler.updateSuggestions returned
  requested,            \* how ModeHandler.updateSuggestions asked for suggestions
  superUpdateSuggestions, \* the modal called the built-in updateSuggestions
  instance,             \* HandlerRegistry.instance (0 is null)
  instancesCreated,     \* the number of HandlerRegistry objects created so far
  modeHandlers,         \* the _handlerRegistry of each ModeHandler constructed
  registryOp,           \* the last operation on the registry singleton
  warned,               \* the last operation logged "already initialized"
  initializedSinceReset, \* initialize was called since the last reset
  isOpen,               \* the modal is open and listens to keydown events
  isMacOS,              \* Platform.isMacOS
  keydown,              \* the last keydown event and what its handler did
  sessionMode,          \* ModeHandler.sessionOpts.mode ("null" when not set)
  inputEl,              \* the value of the modal's input field
  previousInputHistory, \* the last input text of each mode ("none": no entry)
  settings,             \* the two settings that preserve the last input
  initialInput,         \* the setInitialInputForSession calls since the
                        \* last setSessionOpenMode
  debounced,            \* a debounced getSuggestions call is pending
  pending,              \* whose suggestions promises are unresolved: of the
                        \* current updateSuggestions call, of a stale one
  chooser,              \* whose suggestions the chooser holds
  delivered,            \* whose suggestions the last step delivered
  pc                    \* idle, parse, validate, return, done, handled,
                        \* updated, threw

vars ==
  <<commandDefinitions, handlerRegistry, escapeCmdChar, commandMap, inputInfo,
    sessionOpts, scan, resolvedCommands, next, wasCommandValidated,
    validateCalls, resetCalls, resetHandlers, handled, requested,
    superUpdateSuggestions, instance, instancesCreated, modeHandlers,
    registryOp, warned, initializedSinceReset, isOpen, isMacOS, keydown,
    sessionMode, inputEl, previousInputHistory, settings, initialInput,
    debounced, pending, chooser, delivered, pc>>

\* The keydown listener of the open modal.
hotkeyVars == <<isOpen, isMacOS, keydown>>

\* The session a modal was opened with, and its input field.
sessionVars ==
  <<sessionMode, inputEl, previousInputHistory, settings, initialInput>>

\* The suggestion requests of ModeHandler.updateSuggestions.
fetchVars == <<debounced, pending, chooser, delivered>>

switcherVars == <<hotkeyVars, sessionVars, fetchVars>>

parserVars == <<commandDefinitions, handlerRegistry, escapeCmdChar, commandMap>>

\* The HandlerRegistry singleton and the ModeHandlers constructed on it.
registryVars ==
  <<instance, instancesCreated, modeHandlers, registryOp, warned,
    initializedSinceReset>>

\* The outcome of the modal's updateSuggestions.
modalVars == <<handled, requested, superUpdateSuggestions>>

InitParser ==
  /\ \E config \in Configs :
       /\ commandDefinitions = config.defs
       /\ handlerRegistry = config.handlers
       /\ escapeCmdChar = config.escapeCmdChar
       /\ commandMap = buildCommandMap(config.defs)
  /\ inputInfo = [inputText |-> <<>>, cleanInput |-> <<>>, mode |-> Standard]
  /\ sessionOpts = [useActiveEditorAsSource |-> "undefined"]
  /\ scan = scanStart
  /\ resolvedCommands = <<>>
  /\ next = 1
  /\ wasCommandValidated = FALSE
  /\ validateCalls = <<>>
  /\ resetCalls = <<>>
  /\ resetHandlers = {}
  /\ handled = FALSE
  /\ requested = "none"
  /\ superUpdateSuggestions = FALSE
  /\ instance = 0
  /\ instancesCreated = 0
  /\ modeHandlers = <<>>
  /\ registryOp = "none"
  /\ warned = FALSE
  /\ initializedSinceReset = FALSE
  /\ pc = "idle"

\* The modal after its construction, on the given platform and with the
\* given settings: closed, no session mode, nothing requested.
InitSwitcher(macOS, options) ==
  /\ isOpen = FALSE
  /\ isMacOS = macOS
  /\ keydown = NoKeydown
  /\ sessionMode = "null"
  /\ inputEl = <<>>
  /\ previousInputHistory = [mode \in Modes |-> NoInput]
  /\ settings = options
  /\ initialInput = NoCalls
  /\ debounced = FALSE
  /\ pending = {}
  /\ chooser = "empty"
  /\ delivered = "none"

Init ==
  /\ InitParser
  /\ InitSwitcher(FALSE, DefaultSettings)

\* ---------------------------------------------------------------------------
\* Actions
\* ---------------------------------------------------------------------------

\* determineRunMode creates the InputInfo of the query in Standard mode and
\* parseInputForMode starts to parse its inputText.
ParseInputForMode(query) ==
  /\ pc = "idle"
  /\ inputInfo' = [inputText |-> query, cleanInput |-> <<>>, mode |-> Standard]
  /\ pc' = "parse"
  /\ UNCHANGED <<parserVars, switcherVars, registryVars, modalVars,
                 sessionOpts, scan, resolvedCommands, next,
                 wasCommandValidated, validateCalls, resetCalls, resetHandlers>>

\* The modal has its suggestions: nothing of the call is left but the session
\* options, and the modal waits for the next change of the input.
Idle ==
  /\ pc = "updated"
  /\ inputInfo' = [inputText |-> <<>>, cleanInput |-> <<>>, mode |-> Standard]
  /\ scan' = scanStart
  /\ resolvedCommands' = <<>>
  /\ next' = 1
  /\ wasCommandValidated' = FALSE
  /\ validateCalls' = <<>>
  /\ resetCalls' = <<>>
  /\ resetHandlers' = {}
  /\ handled' = FALSE
  /\ requested' = "none"
  /\ superUpdateSuggestions' = FALSE
  /\ pc' = "idle"
  /\ UNCHANGED <<parserVars, switcherVars, registryVars, sessionOpts>>

\* One iteration of the while loop of parse.
ParseLoop ==
  /\ pc = "parse"
  /\ scan.i < Len(inputInfo.inputText)
  /\ scan' = parseStep(commandMap, escapeCmdChar, inputInfo.inputText, scan)
  /\ UNCHANGED <<parserVars, switcherVars, registryVars, modalVars,
                 inputInfo, sessionOpts, resolvedCommands, next,
                 wasCommandValidated, validateCalls, resetCalls, resetHandlers,
                 pc>>

\* A return of parse after which the session's clean input is the raw input.
ParseReturnStoresRawInput ==
  /\ pc = "parse"
  /\ scan.i >= Len(inputInfo.inputText)
  /\ resolvedCommands' =
       resolveCommandPrecedence(scan.foundCommands, scan.cleanInput)
  /\ inputInfo' = [inputInfo EXCEPT !.cleanInput = inputInfo.inputText]
  /\ next' = 1
  /\ pc' = "validate"
  /\ UNCHANGED <<parserVars, switcherVars, registryVars, modalVars,
                 sessionOpts, scan, wasCommandValidated,
                 validateCalls, resetCalls, resetHandlers>>

\* The loop of parse ends: the commands are resolved, parse returns and
\* parseInputForMode stores the clean input.
ParseReturn ==
  /\ pc = "parse"
  /\ scan.i >= Len(inputInfo.inputText)
  /\ resolvedCommands' =
       resolveCommandPrecedence(scan.foundCommands, scan.cleanInput)
  /\ inputInfo' = [inputInfo EXCEPT !.cleanInput = scan.cleanInput]
  /\ next' = 1
  /\ pc' = "validate"
  /\ UNCHANGED <<parserVars, switcherVars, registryVars, modalVars,
                 sessionOpts, scan, wasCommandValidated,
                 validateCalls, resetCalls, resetHandlers>>

\* A missing handler that ends the loop with false.
NoHandlerEndsLoop ==
  /\ pc = "validate"
  /\ next <= Len(resolvedCommands)
  /\ getHandler(handlerRegistry, resolvedCommands[next].cmdDef.mode) = "null"
  /\ wasCommandValidated' = FALSE
  /\ pc' = "return"
  /\ UNCHANGED <<parserVars, switcherVars, registryVars, modalVars,
                 inputInfo, sessionOpts, scan, resolvedCommands, next,
                 validateCalls, resetCalls, resetHandlers>>

\* findFirstValidCommand: the registry has no handler for the entry's mode.
NoHandler ==
  /\ pc = "validate"
  /\ next <= Len(resolvedCommands)
  /\ getHandler(handlerRegistry, resolvedCommands[next].cmdDef.mode) = "null"
  /\ next' = next + 1
  /\ UNCHANGED <<parserVars, switcherVars, registryVars, modalVars,
                 inputInfo, sessionOpts, scan, resolvedCommands,
                 wasCommandValidated, validateCalls, resetCalls, resetHandlers,
                 pc>>

\* An exclusion list that is always empty.
excludeFromResetNothing(resolved, handler) ==
  {}

\* The handlers left out of the reset when the resolved command was validated.
excludeFromReset(resolved, handler) ==
  IF resolved.cmdDef.type = "sourced" THEN {handler} ELSE {}

\* A loop that does not return at a validated command.
afterValidateCommandNoReturn(parsedCmd, resolved, handler) ==
  /\ next' = next + 1
  /\ IF parsedCmd.isValidated
       THEN LET exclude == excludeFromReset(resolved, handler)
            IN /\ resetCalls' = Append(resetCalls, exclude)
               /\ resetHandlers' =
                    resetHandlers \cup
                      resetSourcedHandlers(commandDefinitions, handlerRegistry,
                                           exclude)
               /\ wasCommandValidated' = TRUE
       ELSE UNCHANGED <<resetCalls, resetHandlers, wasCommandValidated>>
  /\ UNCHANGED pc

\* findFirstValidCommand after validateCommand returned parsedCmd: a validated
\* command resets the other sourced handlers and ends the loop with true,
\* otherwise the loop goes on with the next entry.
afterValidateCommand(parsedCmd, resolved, handler) ==
  IF parsedCmd.isValidated
    THEN LET exclude == excludeFromReset(resolved, handler)
         IN /\ resetCalls' = Append(resetCalls, exclude)
            /\ resetHandlers' =
                 resetHandlers \cup
                   resetSourcedHandlers(commandDefinitions, handlerRegistry,
                                        exclude)
            /\ wasCommandValidated' = TRUE
            /\ pc' = "return"
            /\ UNCHANGED next
    ELSE /\ next' = next + 1
         /\ UNCHANGED <<resetCalls, resetHandlers, wasCommandValidated, pc>>

\* What validateCommand does to the session: a handler that assigns the mode
\* assigns its own mode.
handlerSetsMode(info, parsedCmd, resolved) ==
  IF parsedCmd.setsMode
    THEN [info EXCEPT !.mode = resolved.cmdDef.mode]
    ELSE info

\* A staging that sets the flag of a command that has one and otherwise leaves
\* the session's flag alone.
stageSessionOptsOnlyIfSet(opts, resolved) ==
  IF resolved.cmdDef.useActiveEditorAsSource = "undefined"
    THEN opts
    ELSE [opts EXCEPT !.useActiveEditorAsSource =
            resolved.cmdDef.useActiveEditorAsSource]

\* The flag staged on the session before validateCommand is called.
stageSessionOpts(opts, resolved) ==
  [opts EXCEPT !.useActiveEditorAsSource =
     resolved.cmdDef.useActiveEditorAsSource]

\* findFirstValidCommand: the entry's handler is asked to validate it.
ValidateCommand ==
  /\ pc = "validate"
  /\ next <= Len(resolvedCommands)
  /\ LET resolved == resolvedCommands[next]
         handler == getHandler(handlerRegistry, resolved.cmdDef.mode)
     IN /\ handler # "null"
        /\ sessionOpts' = stageSessionOpts(sessionOpts, resolved)
        /\ \E parsedCmd \in ParsedCommands :
             /\ validateCalls' =
                  Append(validateCalls,
                         [position |-> next, handler |-> handler,
                          carried |-> sessionOpts.useActiveEditorAsSource,
                          index |-> resolved.indexInCleanInput,
                          filterText |-> resolved.filterText,
                          useActiveEditorAsSource |->
                            sessionOpts'.useActiveEditorAsSource,
                          isValidated |-> parsedCmd.isValidated,
                          setsMode |-> parsedCmd.setsMode])
             /\ inputInfo' = handlerSetsMode(inputInfo, parsedCmd, resolved)
             /\ afterValidateCommand(parsedCmd, resolved, handler)
  /\ UNCHANGED <<parserVars, switcherVars, registryVars, modalVars,
                 scan, resolvedCommands>>

\* findFirstValidCommand has gone through the whole list: it returns false.
NoCommandValidated ==
  /\ pc = "validate"
  /\ next > Len(resolvedCommands)
  /\ wasCommandValidated' = FALSE
  /\ pc' = "return"
  /\ UNCHANGED <<parserVars, switcherVars, registryVars, modalVars,
                 inputInfo, sessionOpts, scan, resolvedCommands,
                 next, validateCalls, resetCalls, resetHandlers>>

\* An end of parseInputForMode that falls back to Standard mode whatever
\* findFirstValidCommand returned.
ParseInputForModeReturnAlwaysStandard ==
  /\ pc = "return"
  /\ resetCalls' = Append(resetCalls, {})
  /\ resetHandlers' =
       resetHandlers \cup
         resetSourcedHandlers(commandDefinitions, handlerRegistry, {})
  /\ inputInfo' = [inputInfo EXCEPT !.mode = Standard]
  /\ pc' = "done"
  /\ UNCHANGED <<parserVars, switcherVars, registryVars, modalVars,
                 sessionOpts, scan, resolvedCommands, next,
                 wasCommandValidated, validateCalls>>

\* An end of parseInputForMode that resets the handlers but leaves the mode.
ParseInputForModeReturnKeepsMode ==
  /\ pc = "return"
  /\ IF ~wasCommandValidated
       THEN /\ resetCalls' = Append(resetCalls, {})
            /\ resetHandlers' =
                 resetHandlers \cup
                   resetSourcedHandlers(commandDefinitions, handlerRegistry, {})
       ELSE UNCHANGED <<resetCalls, resetHandlers>>
  /\ pc' = "done"
  /\ UNCHANGED <<parserVars, switcherVars, registryVars, modalVars,
                 inputInfo, sessionOpts, scan, resolvedCommands,
                 next, wasCommandValidated, validateCalls>>

\* An end of parseInputForMode whose fallback to Standard mode also takes the
\* staged flag off the session.
ParseInputForModeReturnClearsFlag ==
  /\ pc = "return"
  /\ IF ~wasCommandValidated
       THEN /\ resetCalls' = Append(resetCalls, {})
            /\ resetHandlers' =
                 resetHandlers \cup
                   resetSourcedHandlers(commandDefinitions, handlerRegistry, {})
            /\ inputInfo' = [inputInfo EXCEPT !.mode = Standard]
            /\ sessionOpts' =
                 [sessionOpts EXCEPT !.useActiveEditorAsSource = "undefined"]
       ELSE UNCHANGED <<resetCalls, resetHandlers, inputInfo, sessionOpts>>
  /\ pc' = "done"
  /\ UNCHANGED <<parserVars, switcherVars, registryVars, modalVars,
                 scan, resolvedCommands, next,
                 wasCommandValidated, validateCalls>>

\* An end of parseInputForMode that resets the sourced handlers whatever
\* findFirstValidCommand returned.
ParseInputForModeReturnResetsAgain ==
  /\ pc = "return"
  /\ resetCalls' = Append(resetCalls, {})
  /\ resetHandlers' =
       resetHandlers \cup
         resetSourcedHandlers(commandDefinitions, handlerRegistry, {})
  /\ IF ~wasCommandValidated
       THEN inputInfo' = [inputInfo EXCEPT !.mode = Standard]
       ELSE UNCHANGED inputInfo
  /\ pc' = "done"
  /\ UNCHANGED <<parserVars, switcherVars, registryVars, modalVars,
                 sessionOpts, scan, resolvedCommands, next,
                 wasCommandValidated, validateCalls>>

\* The end of parseInputForMode: without a validated command the sourced
\* handlers are reset and the mode falls back to Standard.
ParseInputForModeReturn ==
  /\ pc = "return"
  /\ IF ~wasCommandValidated
       THEN /\ resetCalls' = Append(resetCalls, {})
            /\ resetHandlers' =
                 resetHandlers \cup
                   resetSourcedHandlers(commandDefinitions, handlerRegistry, {})
            /\ inputInfo' = [inputInfo EXCEPT !.mode = Standard]
       ELSE UNCHANGED <<resetCalls, resetHandlers, inputInfo>>
  /\ pc' = "done"
  /\ UNCHANGED <<parserVars, switcherVars, registryVars, modalVars,
                 sessionOpts, scan, resolvedCommands, next,
                 wasCommandValidated, validateCalls>>

\* inputInfo.parsedCommand().parsedInput: the filter text that the handler
\* of the session's mode stored when it took the mode.
parsedInput ==
  LET calls == {j \in 1..Len(validateCalls) :
                  /\ validateCalls[j].setsMode
                  /\ validateCalls[j].handler = inputInfo.mode}
  IN IF calls = {} THEN <<>>
     ELSE validateCalls[CHOOSE j \in calls : \A k \in calls : k <= j].filterText

\* ModeHandler.updateSuggestions after determineRunMode returned: a mode
\* other than Standard is handled, by a debounced request in headings mode
\* with a query and by an immediate request otherwise.
UpdateSuggestions ==
  /\ pc = "done"
  /\ IF inputInfo.mode # Standard
       THEN /\ requested' =
                 IF inputInfo.mode = "HeadingsList" /\ Len(parsedInput) > 0
                   THEN "debouncedGetSuggestions"
                   ELSE "getSuggestions"
            /\ handled' = TRUE
       ELSE /\ requested' = "none"
            /\ handled' = FALSE
  /\ pc' = "handled"
  /\ UNCHANGED <<parserVars, switcherVars,
                 registryVars, inputInfo, sessionOpts, scan,
                 resolvedCommands, next, wasCommandValidated, validateCalls,
                 resetCalls, resetHandlers, superUpdateSuggestions>>

\* A modal that calls the built-in updateSuggestions whatever the mode
\* handler returned.
ModalUpdateSuggestionsAlwaysSuper ==
  /\ pc = "handled"
  /\ superUpdateSuggestions' = TRUE
  /\ pc' = "updated"
  /\ UNCHANGED <<parserVars, switcherVars,
                 registryVars, inputInfo, sessionOpts, scan,
                 resolvedCommands, next, wasCommandValidated, validateCalls,
                 resetCalls, resetHandlers, handled, requested>>

\* The modal's updateSuggestions after exMode.updateSuggestions returned:
\* what the mode handler did not handle goes to the built-in switcher.
ModalUpdateSuggestions ==
  /\ pc = "handled"
  /\ superUpdateSuggestions' = ~handled
  /\ pc' = "updated"
  /\ UNCHANGED <<parserVars, switcherVars,
                 registryVars, inputInfo, sessionOpts, scan,
                 resolvedCommands, next, wasCommandValidated, validateCalls,
                 resetCalls, resetHandlers, handled, requested>>

Next ==
  \/ \E query \in Inputs : ParseInputForMode(query)
  \/ ParseLoop
  \/ ParseReturn
  \/ NoHandler
  \/ ValidateCommand
  \/ NoCommandValidated
  \/ ParseInputForModeReturn
  \/ UpdateSuggestions
  \/ ModalUpdateSuggestions
  \/ Idle

Spec == Init /\ [][Next]_vars

\* findFirstValidCommand: the handler returns null or undefined instead of a
\* ParsedCommand. The flag is staged and the handler has run; reading
\* parsedCmd.isValidated then throws a TypeError, which ends the loop and
\* parseInputForMode without a reset and without the fallback to Standard.
ValidateCommandReturnsNull ==
  /\ pc = "validate"
  /\ next <= Len(resolvedCommands)
  /\ LET resolved == resolvedCommands[next]
         handler == getHandler(handlerRegistry, resolved.cmdDef.mode)
     IN /\ handler # "null"
        /\ sessionOpts' = stageSessionOpts(sessionOpts, resolved)
        /\ \E setsMode \in BOOLEAN :
             LET parsedCmd == [isValidated |-> FALSE, setsMode |-> setsMode]
             IN /\ validateCalls' =
                     Append(validateCalls,
                            [position |-> next, handler |-> handler,
                             carried |-> sessionOpts.useActiveEditorAsSource,
                             index |-> resolved.indexInCleanInput,
                             filterText |-> resolved.filterText,
                             useActiveEditorAsSource |->
                               sessionOpts'.useActiveEditorAsSource,
                             isValidated |-> FALSE,
                             setsMode |-> setsMode])
                /\ inputInfo' = handlerSetsMode(inputInfo, parsedCmd, resolved)
        /\ pc' = "threw"
  /\ UNCHANGED <<parserVars, switcherVars, registryVars, modalVars,
                 scan, resolvedCommands, next, wasCommandValidated, resetCalls,
                 resetHandlers>>

\* The TypeError has left updateSuggestions: the modal waits for the next
\* change of the input.
UncaughtTypeError ==
  /\ pc = "threw"
  /\ inputInfo' = [inputText |-> <<>>, cleanInput |-> <<>>, mode |-> Standard]
  /\ scan' = scanStart
  /\ resolvedCommands' = <<>>
  /\ next' = 1
  /\ wasCommandValidated' = FALSE
  /\ validateCalls' = <<>>
  /\ resetCalls' = <<>>
  /\ resetHandlers' = {}
  /\ pc' = "idle"
  /\ UNCHANGED <<parserVars, switcherVars,
                 registryVars, modalVars, sessionOpts>>

\* The parser with handlers that may return null or undefined.
NextNull ==
  \/ Next
  \/ ValidateCommandReturnsNull
  \/ UncaughtTypeError

SpecNull == Init /\ [][NextNull]_vars

\* A step of parseInputForMode. The call is synchronous code: once it has
\* started, it runs until it returns or throws.
PassStep ==
  \/ ParseLoop
  \/ ParseReturn
  \/ NoHandler
  \/ ValidateCommand
  \/ ValidateCommandReturnsNull
  \/ NoCommandValidated
  \/ ParseInputForModeReturn

\* SpecNull with a call that never stops halfway; when the next query comes
\* is up to the user.
FairSpecNull == SpecNull /\ WF_vars(PassStep)

TypeOK ==
  /\ pc \in {"idle", "parse", "validate", "return", "done", "handled",
            "updated", "threw"}
  /\ scan.i <= Len(inputInfo.inputText)
  /\ handled \in BOOLEAN
  /\ superUpdateSuggestions \in BOOLEAN
  /\ requested \in {"none", "getSuggestions", "debouncedGetSuggestions"}
  /\ instance \in 0..instancesCreated
  /\ Len(modeHandlers) <= MaxModeHandlers

\* ---------------------------------------------------------------------------
\* Properties of the validation pass
\* ---------------------------------------------------------------------------

\* The positions of the resolved list that have a handler.
withHandler ==
  {n \in 1..Len(resolvedCommands) :
     getHandler(handlerRegistry, resolvedCommands[n].cmdDef.mode) # "null"}

calledPositions == {validateCalls[j].position : j \in 1..Len(validateCalls)}

\* C1: handlers are asked to validate in the order of the resolved list, each
\* entry at most once per call, and the pass stops at the first entry whose
\* handler reports isValidated = true: only the last call of a pass can be a
\* validated one, and when the pass is over no entry after the winner was
\* handed to a handler while every entry with a handler before it was.
ValidationInOrderUntilFirstValid ==
  /\ \A j \in 1..Len(validateCalls) :
       /\ validateCalls[j].position \in withHandler
       /\ validateCalls[j].index =
            resolvedCommands[validateCalls[j].position].indexInCleanInput
       /\ validateCalls[j].filterText =
            resolvedCommands[validateCalls[j].position].filterText
       /\ j < Len(validateCalls) =>
            /\ validateCalls[j].position < validateCalls[j + 1].position
            /\ ~validateCalls[j].isValidated
  /\ pc \in {"return", "done"} =>
       IF wasCommandValidated
         THEN /\ Len(validateCalls) > 0
              /\ validateCalls[Len(validateCalls)].isValidated
              /\ calledPositions =
                   {n \in withHandler :
                      n <= validateCalls[Len(validateCalls)].position}
         ELSE calledPositions = withHandler

\* A pass that rejected one entry, validated the next one and left a later
\* entry of the list unasked.
ValidationStoppedEarly ==
  /\ pc = "done"
  /\ Len(validateCalls) = 2
  /\ validateCalls[2].isValidated
  /\ validateCalls[2].position < Len(resolvedCommands)
  /\ Len(resolvedCommands) \in withHandler

\* The call that ended the pass, when a command was validated.
winningCall == validateCalls[Len(validateCalls)]

winner == resolvedCommands[winningCall.position]

RECURSIVE modeLeftBy(_)
\* The mode the first n validateCommand calls of the pass leave behind: the
\* mode of the last of them that assigned one, or the mode the InputInfo was
\* created with.
modeLeftBy(n) ==
  IF n = 0 THEN Standard
  ELSE IF validateCalls[n].setsMode
    THEN resolvedCommands[validateCalls[n].position].cmdDef.mode
    ELSE modeLeftBy(n - 1)

allSourcedHandlers == sourcedHandlers(commandDefinitions, handlerRegistry)

\* C3: if no entry of the resolved list is validated (the list may be empty),
\* the pass resets every sourced handler, with an empty exclusion list, and
\* ends with the session's mode set to Standard.
NoValidCommandFallsBackToStandard ==
  (pc = "done" /\ ~wasCommandValidated) =>
    /\ inputInfo.mode = Standard
    /\ resetCalls = <<{}>>
    /\ resetHandlers = allSourcedHandlers

\* A pass in which a handler assigned its mode and rejected the command, and
\* that reset a sourced handler on its way back to Standard mode.
RejectedCommandFellBack ==
  /\ pc = "done"
  /\ ~wasCommandValidated
  /\ \E j \in 1..Len(validateCalls) : validateCalls[j].setsMode
  /\ resetHandlers # {}
  /\ inputInfo.mode = Standard

\* C4 as stated: when a command is validated, reset is invoked on every
\* sourced handler but the winning command's handler, and the winning
\* command's handler is not reset, for a sourced and for a prefix winner.
WinnersHandlerIsNeverReset ==
  (pc = "done" /\ wasCommandValidated) =>
    resetHandlers = allSourcedHandlers \ {winningCall.handler}

\* C4 amended: when a sourced command is validated, reset is invoked on every
\* sourced handler but the winning command's handler; when a prefix command is
\* validated, reset is invoked on every sourced handler, the winning command's
\* own handler included when it is a sourced handler.
ResetSparesOnlySourcedWinner ==
  (pc = "done" /\ wasCommandValidated) =>
    /\ resetCalls = <<IF winner.cmdDef.type = "sourced"
                        THEN {winningCall.handler} ELSE {}>>
    /\ resetHandlers =
         IF winner.cmdDef.type = "sourced"
           THEN allSourcedHandlers \ {winningCall.handler}
           ELSE allSourcedHandlers

\* A validated prefix command whose handler is a sourced handler and was reset.
PrefixWinnerHandlerReset ==
  /\ pc = "done"
  /\ wasCommandValidated
  /\ winner.cmdDef.type = "prefix"
  /\ winningCall.handler \in resetHandlers

\* A validated sourced command: its handler is spared, another one is reset.
SourcedWinnerHandlerSpared ==
  /\ pc = "done"
  /\ wasCommandValidated
  /\ winner.cmdDef.type = "sourced"
  /\ winningCall.handler \notin resetHandlers
  /\ resetHandlers # {}

\* ---------------------------------------------------------------------------
\* Properties of parse
\* ---------------------------------------------------------------------------

parsed == pc \in {"validate", "return", "done"}

typeOf(command) == command.cmdDef.type

foundOfType(type) ==
  {n \in 1..Len(scan.foundCommands) : typeOf(scan.foundCommands[n]) = type}

resolvedOfType(type) ==
  {n \in 1..Len(resolvedCommands) : typeOf(resolvedCommands[n]) = type}

\* C5: parse returns all sourced commands first, in ascending order of their
\* index in the clean input, followed by the prefix command, if there is one,
\* as the last element.
SourcedFirstPrefixLast ==
  parsed =>
    /\ \A n \in 1..Len(resolvedCommands) :
         typeOf(resolvedCommands[n]) \in {"sourced", "prefix"}
    /\ resolvedOfType("prefix") \subseteq {Len(resolvedCommands)}
    /\ \A n, m \in resolvedOfType("sourced") :
         n < m => resolvedCommands[n].indexInCleanInput
                    < resolvedCommands[m].indexInCleanInput
    /\ Cardinality(resolvedOfType("sourced")) = Cardinality(foundOfType("sourced"))
    /\ resolvedOfType("prefix") # {} <=>
         \E n \in foundOfType("prefix") :
           scan.foundCommands[n].indexInCleanInput = 0

\* A sourced trigger later in the input comes before the prefix trigger of
\* index 0 in the resolved list.
SourcedBeforePrefixAtZero ==
  /\ parsed
  /\ Len(resolvedCommands) >= 2
  /\ typeOf(resolvedCommands[1]) = "sourced"
  /\ resolvedCommands[1].indexInCleanInput > 0
  /\ typeOf(resolvedCommands[Len(resolvedCommands)]) = "prefix"
  /\ resolvedCommands[Len(resolvedCommands)].indexInCleanInput = 0

\* C6: a prefix trigger yields a resolved command only at index 0 of the clean
\* input; a prefix trigger found at a later index is not in the resolved list
\* and no handler is asked to validate it.
PrefixOnlyAtIndexZero ==
  /\ \A n \in resolvedOfType("prefix") :
       resolvedCommands[n].indexInCleanInput = 0
  /\ \A j \in 1..Len(validateCalls) :
       typeOf(resolvedCommands[validateCalls[j].position]) = "prefix" =>
         validateCalls[j].index = 0
  /\ parsed =>
       \A n \in foundOfType("prefix") :
         scan.foundCommands[n].indexInCleanInput > 0 =>
           \A m \in 1..Len(resolvedCommands) :
             resolvedCommands[m].indexInCleanInput
               # scan.foundCommands[n].indexInCleanInput

\* The scan found a prefix trigger, whose mode has a handler, after index 0,
\* and the pass is over.
PrefixTriggerFoundLater ==
  /\ pc = "done"
  /\ \E n \in foundOfType("prefix") :
       /\ scan.foundCommands[n].indexInCleanInput > 0
       /\ scan.foundCommands[n].cmdDef.mode \in handlerRegistry

\* The configured triggers that the text starts with at index.
triggersAt(text, index) ==
  {commandDefinitions[n].cmdStr : n \in
     {m \in 1..Len(commandDefinitions) :
        /\ Len(commandDefinitions[m].cmdStr) > 0
        /\ startsWith(text, commandDefinitions[m].cmdStr, index)}}

isLongest(trigger, triggers) ==
  /\ trigger \in triggers
  /\ \A t \in triggers : Len(t) <= Len(trigger)

\* What one step of the scan appended to the clean input.
appended ==
  SubSeq(scan'.cleanInput, Len(scan.cleanInput) + 1, Len(scan'.cleanInput))

scanStepTaken == pc = "parse" /\ pc' = "parse" /\ scan' # scan

atEscapeMarker == startsWith(inputInfo.inputText, escapeCmdChar, scan.i)

escapedTriggers ==
  IF atEscapeMarker
    THEN triggersAt(inputInfo.inputText, scan.i + Len(escapeCmdChar))
    ELSE {}

\* A step that matches a trigger appends the longest configured trigger that
\* the input starts with at the place of the match: behind the escape marker
\* for an escaped trigger, at the scan position otherwise.
LongestTriggerMatched ==
  scanStepTaken =>
    IF escapedTriggers # {}
      THEN isLongest(appended, escapedTriggers)
      ELSE triggersAt(inputInfo.inputText, scan.i) # {} =>
             /\ isLongest(appended, triggersAt(inputInfo.inputText, scan.i))
             /\ scan'.i = scan.i + Len(appended)
             /\ Len(scan'.foundCommands) = Len(scan.foundCommands) + 1
             /\ scan'.foundCommands[Len(scan'.foundCommands)].cmdStr = appended

hasTriggers(triggers) ==
  \A t \in triggers : \E n \in 1..Len(commandDefinitions) :
    commandDefinitions[n].cmdStr = t

\* With triggers a and aa, input aab gives one command aa with filter text b.
OverlapExample ==
  (/\ parsed
   /\ hasTriggers({<<"a">>, <<"a", "a">>})
   /\ inputInfo.inputText = <<"a", "a", "b">>) =>
    /\ Len(scan.foundCommands) = 1
    /\ Len(resolvedCommands) = 1
    /\ resolvedCommands[1].cmdStr = <<"a", "a">>
    /\ resolvedCommands[1].filterText = <<"b">>

\* C7: at every scan position where a configured trigger is a prefix of the
\* remaining input, the trigger that is matched (as a command, or as literal
\* text when escaped) is the longest such trigger, whatever the order of the
\* definitions; triggers a and aa and input aab give the one command aa with
\* filter text b.
LongestMatchWins ==
  [][LongestTriggerMatched]_vars /\ []OverlapExample

\* Input aab was parsed with the trigger a defined before the trigger aa.
OverlapParsedShortDefinedFirst ==
  /\ parsed
  /\ inputInfo.inputText = <<"a", "a", "b">>
  /\ \E n, m \in 1..Len(commandDefinitions) :
       /\ n < m
       /\ commandDefinitions[n].cmdStr = <<"a">>
       /\ commandDefinitions[m].cmdStr = <<"a", "a">>
  /\ Len(resolvedCommands) = 1
  /\ resolvedCommands[1].cmdStr = <<"a", "a">>

\* The longest of a non-empty set of triggers of different lengths.
longestOf(triggers) ==
  CHOOSE t \in triggers : \A u \in triggers : Len(u) <= Len(t)

\* One step of the scan that starts at an escape marker.
EscapeStep ==
  (scanStepTaken /\ atEscapeMarker) =>
    IF escapedTriggers # {}
      THEN /\ appended = longestOf(escapedTriggers)
           /\ scan'.i = scan.i + Len(escapeCmdChar) + Len(appended)
           /\ scan'.foundCommands = scan.foundCommands
      ELSE /\ scan'.i > scan.i
           /\ appended = SubSeq(inputInfo.inputText, scan.i + 1, scan'.i)

\* C8: an escape marker at the scan position is left out of the clean input
\* exactly when a configured trigger follows it immediately: then the trigger
\* text is appended to the clean input, the cursor moves past marker plus
\* trigger and no command is recorded; otherwise the marker is copied to the
\* clean input unchanged (the step copies the input text it consumes).
EscapeMarkerDroppedOnlyBeforeTrigger ==
  [][EscapeStep]_vars

\* Input !!@ was scanned: the first marker was copied, the second one, which
\* stands before the trigger @, was left out and no command was recorded.
DoubleEscapeScanned ==
  /\ parsed
  /\ inputInfo.inputText = <<"!", "!", "@">>
  /\ escapeCmdChar = <<"!">>
  /\ inputInfo.cleanInput = <<"!", "@">>
  /\ scan.foundCommands = <<>>

reparsed ==
  parse(commandMap, escapeCmdChar, inputInfo.cleanInput).cleanInput

\* C9 as stated: the clean input is a fixed point of parsing.
CleanInputIsFixedPoint ==
  parsed => reparsed = inputInfo.cleanInput

\* An escape marker immediately followed by a configured trigger somewhere in
\* the text.
hasEscapedTrigger(text) ==
  \E index \in 0..(Len(text) - 1) :
    /\ startsWith(text, escapeCmdChar, index)
    /\ triggersAt(text, index + Len(escapeCmdChar)) # {}

\* C9 amended: the clean input is a fixed point of parsing whenever it holds
\* no escape marker immediately followed by a configured trigger (parse
\* strips one layer of escaping only: !!@ gives !@, which parses to @).
CleanInputIsFixedPointUnlessEscapeLeft ==
  (parsed /\ ~hasEscapedTrigger(inputInfo.cleanInput)) =>
    reparsed = inputInfo.cleanInput

\* A parse that stripped an escape marker and left a clean input without an
\* escaped trigger, but with an escape marker and a command in it.
EscapeStrippedOnce ==
  /\ parsed
  /\ Len(inputInfo.cleanInput) < Len(inputInfo.inputText)
  /\ ~hasEscapedTrigger(inputInfo.cleanInput)
  /\ \E n \in 1..Len(inputInfo.cleanInput) :
       <<inputInfo.cleanInput[n]>> = escapeCmdChar
  /\ reparsed = inputInfo.cleanInput

\* C10: for every resolved command the clean input holds its cmdStr at its
\* indexInCleanInput, and its filterText is the whole rest of the clean input
\* after that trigger, later triggers included.
FilterTextIsRestOfCleanInput ==
  \A n \in 1..Len(resolvedCommands) :
    LET c == resolvedCommands[n]
    IN /\ startsWith(inputInfo.cleanInput, c.cmdStr, c.indexInCleanInput)
       /\ inputInfo.cleanInput =
            SubSeq(inputInfo.cleanInput, 1, c.indexInCleanInput)
              \o c.cmdStr \o c.filterText

\* The filter text of one resolved command holds the trigger of a later one,
\* and an escape marker was taken out in front of them.
FilterTextHoldsLaterTrigger ==
  /\ parsed
  /\ startsWith(inputInfo.inputText, escapeCmdChar, 0)
  /\ triggersAt(inputInfo.inputText, Len(escapeCmdChar)) # {}
  /\ \E n, m \in 1..Len(resolvedCommands) :
       /\ resolvedCommands[m].indexInCleanInput
            >= resolvedCommands[n].indexInCleanInput
                 + Len(resolvedCommands[n].cmdStr)
       /\ Len(resolvedCommands[n].filterText)
            >= Len(resolvedCommands[m].cmdStr)

\* ---------------------------------------------------------------------------
\* The HandlerRegistry singleton
\* ---------------------------------------------------------------------------

\* HandlerRegistry.getInstance(): the instance, or null (0).
getInstance == instance

\* new HandlerRegistry(...): an object that is none of those created before.
createInstance ==
  /\ instance' = instancesCreated + 1
  /\ instancesCreated' = instancesCreated + 1

\* HandlerRegistry.initialize(app, config, commandDefinitions): creates the
\* instance if there is none, otherwise warns and keeps the one there is.
HandlerRegistryInitialize ==
  /\ instance # 0 \/ instancesCreated < MaxInstances
  /\ IF instance = 0
       THEN createInstance /\ warned' = FALSE
       ELSE warned' = TRUE /\ UNCHANGED <<instance, instancesCreated>>
  /\ initializedSinceReset' = TRUE
  /\ registryOp' = "initialize"
  /\ UNCHANGED <<parserVars, switcherVars,
                 modalVars, modeHandlers, inputInfo, sessionOpts,
                 scan, resolvedCommands, next, wasCommandValidated,
                 validateCalls, resetCalls, resetHandlers, pc>>

\* HandlerRegistry.reset(): there is no instance any more.
HandlerRegistryReset ==
  /\ instance' = 0
  /\ warned' = FALSE
  /\ initializedSinceReset' = FALSE
  /\ registryOp' = "reset"
  /\ UNCHANGED <<parserVars, switcherVars,
                 modalVars, instancesCreated, modeHandlers,
                 inputInfo, sessionOpts, scan, resolvedCommands, next,
                 wasCommandValidated, validateCalls, resetCalls, resetHandlers,
                 pc>>

\* A constructor that creates a registry of its own for every ModeHandler.
NewModeHandlerOwnRegistry ==
  /\ pc = "idle"
  /\ Len(modeHandlers) < MaxModeHandlers
  /\ instancesCreated < MaxInstances
  /\ createInstance
  /\ initializedSinceReset' = TRUE
  /\ warned' = FALSE
  /\ modeHandlers' = Append(modeHandlers, instance')
  /\ registryOp' = "construct"
  /\ commandMap' = buildCommandMap(commandDefinitions)
  /\ sessionOpts' = [useActiveEditorAsSource |-> "undefined"]
  /\ inputInfo' = [inputText |-> <<>>, cleanInput |-> <<>>, mode |-> Standard]
  /\ UNCHANGED <<switcherVars,
                 commandDefinitions, handlerRegistry, escapeCmdChar,
                 modalVars,
                 scan, resolvedCommands, next, wasCommandValidated,
                 validateCalls, resetCalls, resetHandlers, pc>>

\* new ModeHandler(app, settings, exKeymap): initializes the registry if
\* getInstance returns null, keeps the instance as its _handlerRegistry,
\* constructs its InputParser and resets its session.
NewModeHandler ==
  /\ pc = "idle"
  /\ Len(modeHandlers) < MaxModeHandlers
  /\ instance # 0 \/ instancesCreated < MaxInstances
  /\ IF getInstance = 0
       THEN createInstance /\ initializedSinceReset' = TRUE
       ELSE UNCHANGED <<instance, instancesCreated, initializedSinceReset>>
  /\ warned' = FALSE
  /\ modeHandlers' = Append(modeHandlers, instance')
  /\ registryOp' = "construct"
  /\ commandMap' = buildCommandMap(commandDefinitions)
  /\ sessionOpts' = [useActiveEditorAsSource |-> "undefined"]
  /\ inputInfo' = [inputText |-> <<>>, cleanInput |-> <<>>, mode |-> Standard]
  /\ UNCHANGED <<switcherVars,
                 commandDefinitions, handlerRegistry, escapeCmdChar,
                 modalVars,
                 scan, resolvedCommands, next, wasCommandValidated,
                 validateCalls, resetCalls, resetHandlers, pc>>

\* The plugin and its tests operate the registry singleton.
RegistryNext ==
  \/ HandlerRegistryInitialize
  \/ HandlerRegistryReset
  \/ NewModeHandler

RegistrySpec == Init /\ [][RegistryNext]_vars

\* initialize with an instance in place keeps it and creates nothing.
InitializeKeepsInstance ==
  (registryOp' = "initialize" /\ instance # 0) =>
    /\ instance' = instance
    /\ instancesCreated' = instancesCreated

\* An instance that takes the place of null is none of those created before.
InitializeAfterResetCreatesAnother ==
  (instance = 0 /\ instance' # 0) =>
    /\ instance' \notin 1..instancesCreated
    /\ instancesCreated' = instancesCreated + 1

\* The constructor creates a registry when there is none and only then, and
\* the ModeHandler holds the instance there is after it.
ConstructorInitializesOnlyWithoutInstance ==
  Len(modeHandlers') > Len(modeHandlers) =>
    /\ IF instance = 0
         THEN instancesCreated' = instancesCreated + 1
         ELSE instance' = instance /\ instancesCreated' = instancesCreated
    /\ instance' # 0
    /\ modeHandlers'[Len(modeHandlers')] = instance'
    /\ ~warned'

\* C19: over any sequence of HandlerRegistry.initialize, reset and
\* getInstance calls, getInstance returns null exactly when no initialize has
\* happened since the last reset (or ever); initialize while an instance
\* exists keeps the same instance; initialize after reset creates a different
\* instance. Constructing a ModeHandler initializes the registry only when
\* none exists and otherwise reuses the existing one.
RegistryIsSingleton ==
  /\ [](getInstance = 0 <=> ~initializedSinceReset)
  /\ [][InitializeKeepsInstance]_vars
  /\ [][InitializeAfterResetCreatesAnother]_vars
  /\ [][ConstructorInitializesOnlyWithoutInstance]_vars

\* Two ModeHandlers share the first registry; after a reset a third one was
\* constructed and holds another registry.
RegistryReusedThenRecreated ==
  /\ Len(modeHandlers) = 3
  /\ modeHandlers[1] = modeHandlers[2]
  /\ modeHandlers[3] # modeHandlers[1]
  /\ getInstance = modeHandlers[3]
  /\ registryOp = "construct"

\* ---------------------------------------------------------------------------
\* Inputs without a trigger
\* ---------------------------------------------------------------------------

\* No configured command string occurs anywhere in the text.
triggerFree(text) ==
  \A index \in 0..(Len(text) - 1) : triggersAt(text, index) = {}

\* The escape marker occurs somewhere in the text.
hasEscapeMarker(text) ==
  \E index \in 0..(Len(text) - 1) : startsWith(text, escapeCmdChar, index)

\* C11: for every input in which no configured trigger string occurs (escape
\* markers may occur), parse returns a clean input equal to the raw input and
\* an empty list of resolved commands.
TriggerFreeInputIsReturnedAsIs ==
  (parsed /\ triggerFree(inputInfo.inputText)) =>
    /\ inputInfo.cleanInput = inputInfo.inputText
    /\ resolvedCommands = <<>>

\* A parsed input of escape markers and plain text that holds no trigger.
EscapeMarkersKeptWithoutTrigger ==
  /\ parsed
  /\ triggerFree(inputInfo.inputText)
  /\ hasEscapeMarker(inputInfo.inputText)
  /\ Len(inputInfo.inputText) >= 3
  /\ inputInfo.inputText[Len(inputInfo.inputText)] # escapeCmdChar[1]

\* ---------------------------------------------------------------------------
\* Handlers the registry does not have, results a handler does not give
\* ---------------------------------------------------------------------------

\* The positions of the resolved list without a handler.
withoutHandler == (1..Len(resolvedCommands)) \ withHandler

\* C12: when the registry has no handler for a resolved command's mode,
\* parseInputForMode treats that entry as not validated, without an error, and
\* goes on with the next entry: no validateCommand call is made for it, and
\* every later entry that has a handler is still asked unless an entry before
\* it was validated.
MissingHandlerIsSkipped ==
  (pc = "done") =>
    /\ calledPositions \cap withoutHandler = {}
    /\ \A p \in withHandler :
         (\E q \in withoutHandler : q < p) =>
           \/ p \in calledPositions
           \/ \E j \in 1..Len(validateCalls) :
                /\ validateCalls[j].position < p
                /\ validateCalls[j].isValidated
    /\ (~wasCommandValidated) => inputInfo.mode = Standard

\* A pass whose first entry has no handler and whose second entry won.
LaterEntryWonAfterMissingHandler ==
  /\ pc = "done"
  /\ wasCommandValidated
  /\ 1 \in withoutHandler
  /\ winningCall.position = 2
  /\ inputInfo.mode = winner.cmdDef.mode

\* C13: when validateCommand returns null or undefined, parseInputForMode
\* treats the entry as not validated instead of failing, goes on with the next
\* entry and still ends with a resolved mode: no pass is ever left by an error
\* raised on the result of validateCommand.
NullResultIsNotValidated ==
  pc # "threw"

\* ---------------------------------------------------------------------------
\* The active-editor flag
\* ---------------------------------------------------------------------------

\* C14: at the moment validateCommand is called for a resolved command, the
\* session's useActiveEditorAsSource equals the flag of that command's
\* definition, whatever value the session carried before; the staged value
\* stays on the session after the call.
FlagStagedBeforeValidation ==
  /\ \A j \in 1..Len(validateCalls) :
       validateCalls[j].useActiveEditorAsSource =
         resolvedCommands[validateCalls[j].position].cmdDef.useActiveEditorAsSource
  /\ validateCalls # <<>> =>
       sessionOpts.useActiveEditorAsSource =
         validateCalls[Len(validateCalls)].useActiveEditorAsSource

\* A call for a command without the flag, made on a session that carried the
\* flag of an earlier command.
FlagOverwrittenByCommandWithoutFlag ==
  \E j \in 1..Len(validateCalls) :
    /\ validateCalls[j].carried = "true"
    /\ validateCalls[j].useActiveEditorAsSource = "undefined"
    /\ resolvedCommands[validateCalls[j].position].cmdDef.useActiveEditorAsSource
         = "undefined"

\* ---------------------------------------------------------------------------
\* Definitions of type none
\* ---------------------------------------------------------------------------

\* The definitions list without its definitions of type none.
withoutNone(defs) ==
  SelectSeq(defs, LAMBDA def : def.type # "none")

\* What parse returns for the text once the definitions of type none are
\* removed from the list the parser is constructed with.
parsedWithoutNone(text) ==
  parse(buildCommandMap(withoutNone(commandDefinitions)), escapeCmdChar, text)

\* C15: a definition classified none never takes part in triggering: removing
\* such definitions, whatever their trigger strings, changes neither the clean
\* input nor the resolved commands that parse returns for any input.
NoneDefinitionNeverTakesPart ==
  parsed =>
    /\ inputInfo.cleanInput = parsedWithoutNone(inputInfo.inputText).cleanInput
    /\ resolvedCommands =
         parsedWithoutNone(inputInfo.inputText).resolvedCommands

\* ---------------------------------------------------------------------------
\* The session after parseInputForMode
\* ---------------------------------------------------------------------------

\* parse has returned and parseInputForMode has stored its clean input.
cleanInputStored == pc \in {"validate", "return", "done", "handled", "updated"}

\* The input !@bb under a configuration where @ is a trigger and b is not.
EscapedSymbolExample ==
  /\ inputInfo.inputText = <<"!", "@", "b", "b">>
  /\ escapeCmdChar = <<"!">>
  /\ triggersAt(<<"@">>, 0) # {}
  /\ triggerFree(<<"b", "b">>)

\* From the start of a pass to its end the raw input of the session stays
\* what the caller passed in.
InputTextKept ==
  pc \in {"parse", "validate", "return", "done", "handled"} =>
    inputInfo'.inputText = inputInfo.inputText

\* C16: after parseInputForMode, whatever the outcome of validation, the
\* session's clean input is the clean input parse computes for the session's
\* raw input, and the raw input is left unchanged; the input !@bb (an escaped
\* trigger followed by plain text) ends with clean input @bb, no resolved
\* command and Standard mode.
SessionHoldsCleanInputOfParse ==
  /\ [](cleanInputStored =>
          inputInfo.cleanInput =
            parse(commandMap, escapeCmdChar, inputInfo.inputText).cleanInput)
  /\ [][InputTextKept]_vars
  /\ []((pc = "done" /\ EscapedSymbolExample) =>
          /\ inputInfo.cleanInput = <<"@", "b", "b">>
          /\ resolvedCommands = <<>>
          /\ validateCalls = <<>>
          /\ inputInfo.mode = Standard)

\* The end of the pass over !@bb.
EscapedSymbolParsed ==
  /\ pc = "done"
  /\ EscapedSymbolExample
  /\ inputInfo.cleanInput = <<"@", "b", "b">>
  /\ inputInfo.mode = Standard

\* ---------------------------------------------------------------------------
\* Triggers and characters of several code units
\* ---------------------------------------------------------------------------

\* The command strings of several code units of the definitions that can be
\* triggered.
longTriggers ==
  {commandDefinitions[n].cmdStr : n \in
     {m \in 1..Len(commandDefinitions) :
        /\ Len(commandDefinitions[m].cmdStr) >= 2
        /\ commandDefinitions[m].type \in {"prefix", "sourced"}}}

\* The text is the trigger followed by text that holds no trigger.
isTriggerThenPlainText(text, trigger) ==
  /\ startsWith(text, trigger, 0)
  /\ Len(text) > Len(trigger)
  /\ triggerFree(substring(text, Len(trigger)))

\* C17: if a trigger is made of several code units and the input is that
\* trigger followed by plain text, parse records exactly one command, whose
\* cmdStr is the whole trigger and whose filter text is exactly the trailing
\* text, and the clean input equals the input.
LongTriggerIsOneCommand ==
  parsed =>
    \A trigger \in longTriggers :
      isTriggerThenPlainText(inputInfo.inputText, trigger) =>
        /\ Len(scan.foundCommands) = 1
        /\ scan.foundCommands[1].cmdStr = trigger
        /\ Len(resolvedCommands) = 1
        /\ resolvedCommands[1].cmdStr = trigger
        /\ resolvedCommands[1].indexInCleanInput = 0
        /\ resolvedCommands[1].filterText =
             substring(inputInfo.inputText, Len(trigger))
        /\ inputInfo.cleanInput = inputInfo.inputText

\* A surrogate pair that is a trigger, followed by two code units of plain
\* text.
SurrogatePairTriggerParsed ==
  /\ parsed
  /\ <<"H", "L">> \in longTriggers
  /\ isTriggerThenPlainText(inputInfo.inputText, <<"H", "L">>)
  /\ Len(resolvedCommands) = 1
  /\ Len(resolvedCommands[1].filterText) = 2

\* The index is that of the second code unit of a surrogate pair of the text.
isSecondOfPair(text, index) ==
  /\ index >= 1
  /\ index < Len(text)
  /\ text[index] = "H"
  /\ text[index + 1] = "L"

\* The scan is about to attempt a match at the cursor.
matchAttempted == pc = "parse" /\ scan.i < Len(inputInfo.inputText)

LiteralStepCopiesOneCodeUnit ==
  (/\ scanStepTaken
   /\ escapedTriggers = {}
   /\ triggersAt(inputInfo.inputText, scan.i) = {}) =>
    /\ scan'.i = scan.i + 1
    /\ appended = <<inputInfo.inputText[scan.i + 1]>>
    /\ scan'.foundCommands = scan.foundCommands

StandardModeGoesToBuiltInSwitcher ==
  (pc = "updated") =>
    /\ superUpdateSuggestions <=> ~handled
    /\ ~handled <=> inputInfo.mode = Standard
    /\ inputInfo.mode = Standard => requested = "none"
    /\ inputInfo.mode # Standard =>
         /\ getHandler(handlerRegistry, inputInfo.mode) # "null"
         /\ requested \in {"getSuggestions", "debouncedGetSuggestions"}
         /\ requested = "debouncedGetSuggestions" <=>
              /\ inputInfo.mode = "HeadingsList"
              /\ winner.cmdDef.mode = "HeadingsList"
              /\ Len(winningCall.filterText) > 0

\* A headings query with filter text: the request is debounced and the
\* built-in switcher is not asked.
HeadingsQueryDebounced ==
  /\ pc = "updated"
  /\ inputInfo.mode = "HeadingsList"
  /\ Len(winningCall.filterText) > 0
  /\ requested = "debouncedGetSuggestions"
  /\ handled
  /\ ~superUpdateSuggestions

\* ---------------------------------------------------------------------------
\* Termination
\* ---------------------------------------------------------------------------

\* An iteration of the scan loop moves the read cursor forward.
CursorAdvances ==
  scanStepTaken => scan'.i > scan.i

\* No empty command string is in the command map.
NoEmptyCmdStrMapped ==
  \A firstChar \in Chars : \A n \in 1..Len(commandMap[firstChar]) :
    Len(commandMap[firstChar][n].cmdStr) > 0

\* C23: parse terminates on every finite input: every loop iteration advances
\* the read cursor by at least one position (empty trigger strings are never
\* put in the index), so the cursor, which never passes the end of the input,
\* allows at most as many iterations as the input has code units, and
\* parseInputForMode always reaches its end with a resolved mode.
PassAlwaysEndsWithResolvedMode ==
  /\ [][CursorAdvances]_vars
  /\ [](NoEmptyCmdStrMapped /\ scan.i <= Len(inputInfo.inputText))
  /\ (pc = "parse") ~> (pc = "done")

\* ---------------------------------------------------------------------------
\* The commands of one scan
\* ---------------------------------------------------------------------------

\* The index in the clean input behind the n-th found command.
endOfFound(n) ==
  scan.foundCommands[n].indexInCleanInput + Len(scan.foundCommands[n].cmdStr)

\* C24: the commands found by one scan never overlap: their indices in the
\* clean input are strictly increasing and each one starts at or after the
\* end of the previous one; hence at most one command sits at index 0 and the
\* resolved list holds at most one prefix command.
FoundCommandsNeverOverlap ==
  /\ \A n \in 1..(Len(scan.foundCommands) - 1) :
       /\ scan.foundCommands[n].indexInCleanInput
            < scan.foundCommands[n + 1].indexInCleanInput
       /\ endOfFound(n) <= scan.foundCommands[n + 1].indexInCleanInput
  /\ \A n \in 1..Len(scan.foundCommands) :
       endOfFound(n) <= Len(scan.cleanInput)
  /\ Cardinality({n \in 1..Len(scan.foundCommands) :
                    scan.foundCommands[n].indexInCleanInput = 0}) <= 1
  /\ parsed => Cardinality(resolvedOfType("prefix")) <= 1

\* Three prefix commands found back to back, the one at index 0 resolved.
AdjacentPrefixCommandsFound ==
  /\ parsed
  /\ Len(scan.foundCommands) = 3
  /\ \A n \in 1..3 : typeOf(scan.foundCommands[n]) = "prefix"
  /\ \A n \in 1..2 :
       endOfFound(n) = scan.foundCommands[n + 1].indexInCleanInput
  /\ Cardinality(resolvedOfType("prefix")) = 1

\* ---------------------------------------------------------------------------
\* The spans of the raw input the scan has read
\* ---------------------------------------------------------------------------

RECURSIVE spansFrom(_)
\* The iterations of the scan from the loop state st up to the cursor, each
\* with the span of the raw input it read and what it was: a command, an
\* escaped trigger or a literal code unit.
spansFrom(st) ==
  IF st.i >= scan.i THEN <<>>
  ELSE LET after == parseStep(commandMap, escapeCmdChar, inputInfo.inputText,
                              st)
           kind ==
             IF Len(after.foundCommands) > Len(st.foundCommands)
               THEN "command"
             ELSE IF after.i - st.i
                       > Len(after.cleanInput) - Len(st.cleanInput)
               THEN "escaped"
             ELSE "literal"
       IN <<[start |-> st.i, end |-> after.i, kind |-> kind,
             found |-> Len(after.foundCommands)]>> \o spansFrom(after)

spans == spansFrom(scanStart)

\* The index in the raw input where the trigger of a span starts.
triggerStart(span) ==
  IF span.kind = "escaped" THEN span.start + Len(escapeCmdChar)
  ELSE span.start

\* The spans of the found commands, in the order of the found commands.
commandsOf(read) == SelectSeq(read, LAMBDA span : span.kind = "command")

\* The span is a match and a configured trigger occurs at index p strictly
\* inside it.
occursInside(p, span) ==
  /\ span.kind # "literal"
  /\ span.start < p
  /\ p < span.end
  /\ triggersAt(inputInfo.inputText, p) # {}

sourcedTriggers ==
  {commandDefinitions[n].cmdStr : n \in
     {m \in 1..Len(commandDefinitions) :
        /\ commandDefinitions[m].type = "sourced"
        /\ Len(commandDefinitions[m].cmdStr) > 0}}

\* C26: a trigger occurrence whose text lies inside the span of an earlier
\* match of the same scan creates no command: a match, escaped or not, spans
\* the whole of its trigger, no iteration of the scan starts inside that span
\* and the found commands are exactly the unescaped matches, each recorded
\* with the trigger at the start of its span. This also holds when the
\* earlier match is an escaped trigger or a prefix trigger away from index 0
\* that is itself discarded, so that a sourced trigger string present in the
\* input is not always recognized.
OccurrenceInsideMatchIsNoCommand ==
  LET read == spans
      commandSpans == commandsOf(read)
  IN /\ Len(commandSpans) = Len(scan.foundCommands)
     /\ \A k \in 1..Len(commandSpans) :
          /\ commandSpans[k].found = k
          /\ scan.foundCommands[k].cmdStr =
               SubSeq(inputInfo.inputText, commandSpans[k].start + 1,
                      commandSpans[k].end)
     /\ \A n \in 1..Len(read) :
          /\ read[n].kind # "literal" =>
               read[n].end = triggerStart(read[n])
                 + Len(longestOf(triggersAt(inputInfo.inputText,
                                            triggerStart(read[n]))))
          /\ \A p \in (read[n].start + 1)..(read[n].end - 1) :
               occursInside(p, read[n]) =>
                 \A m \in 1..Len(read) : read[m].start # p
     /\ parsed =>
          \A r \in 1..Len(resolvedCommands) :
            \E k \in 1..Len(scan.foundCommands) :
              /\ resolvedCommands[r].cmdStr = scan.foundCommands[k].cmdStr
              /\ resolvedCommands[r].indexInCleanInput
                   = scan.foundCommands[k].indexInCleanInput

\* A prefix trigger was matched away from index 0 and discarded, and the
\* sourced trigger inside its span gave no command: nothing was resolved.
SourcedTriggerInsideDiscardedPrefix ==
  /\ pc = "done"
  /\ resolvedCommands = <<>>
  /\ LET read == spans
     IN \E n \in 1..Len(read) :
          /\ read[n].kind = "command"
          /\ read[n].start > 0
          /\ typeOf(scan.foundCommands[read[n].found]) = "prefix"
          /\ \E p \in 0..Len(inputInfo.inputText) :
               /\ occursInside(p, read[n])
               /\ triggersAt(inputInfo.inputText, p) \cap sourcedTriggers
                    # {}

\* An escaped trigger was matched, and the sourced trigger inside its span
\* gave no command.
SourcedTriggerInsideEscapedTrigger ==
  /\ pc = "done"
  /\ scan.foundCommands = <<>>
  /\ LET read == spans
     IN \E n \in 1..Len(read) :
          /\ read[n].kind = "escaped"
          /\ \E p \in 0..Len(inputInfo.inputText) :
               /\ p > triggerStart(read[n])
               /\ occursInside(p, read[n])
               /\ triggersAt(inputInfo.inputText, p) \cap sourcedTriggers
                    # {}

\* ---------------------------------------------------------------------------
\* The reset of the sourced handlers within a pass
\* ---------------------------------------------------------------------------

\* A step that calls validateCommand comes before any reset of the pass, and
\* a step that resets is the first one to do so and ends the validation.
ResetStep ==
  /\ Len(validateCalls') > Len(validateCalls) => resetCalls = <<>>
  /\ Len(resetCalls') > Len(resetCalls) =>
       /\ resetCalls = <<>>
       /\ Len(resetCalls') = 1
       /\ pc' \in {"return", "done"}

\* The exclusion list of the one reset of a pass that has ended.
exclusionList == resetCalls[1]

\* C27: parseInputForMode calls resetSourcedHandlers exactly once per call,
\* after the last validateCommand call of that pass; the exclusion list holds
\* the winning handler only when the winner is a sourced command and is empty
\* when the winner is a prefix command or when nothing validates.
ResetOnceAfterLastValidation ==
  /\ [][ResetStep]_vars
  /\ [](Len(resetCalls) <= 1)
  /\ [](pc = "done" =>
         /\ Len(resetCalls) = 1
         /\ exclusionList # {} =>
              /\ wasCommandValidated
              /\ typeOf(winner) = "sourced"
              /\ exclusionList = {winningCall.handler}
         /\ (wasCommandValidated /\ typeOf(winner) = "sourced") =>
              exclusionList = {winningCall.handler}
         /\ (wasCommandValidated /\ typeOf(winner) = "prefix") =>
              exclusionList = {}
         /\ ~wasCommandValidated => exclusionList = {})

\* A pass that asked two handlers and was won by the second, a sourced
\* command: the one reset came with the second call and spares its handler.
ResetCameWithSecondValidation ==
  /\ pc = "done"
  /\ Len(validateCalls) = 2
  /\ ~validateCalls[1].isValidated
  /\ wasCommandValidated
  /\ typeOf(winner) = "sourced"
  /\ resetCalls = <<{winningCall.handler}>>

\* ---------------------------------------------------------------------------
\* The frame of the session's flag
\* ---------------------------------------------------------------------------

\* The session's flag changes only in a step that asks a handler.
FlagChangesOnlyWithHandler ==
  sessionOpts' # sessionOpts => Len(validateCalls') = Len(validateCalls) + 1

\* The command whose handler was asked last in the pass.
lastAsked == resolvedCommands[validateCalls[Len(validateCalls)].position]

\* C28: parseInputForMode changes sessionOpts.useActiveEditorAsSource only
\* when it consults a handler: no other step of the call changes it, so it
\* keeps its earlier value when no handler is consulted, and after the call
\* it equals the flag of the last command whose handler was asked, also when
\* that command was rejected and the mode fell back to Standard.
FlagFollowsLastHandlerAsked ==
  /\ [][FlagChangesOnlyWithHandler]_vars
  /\ []((pc = "done" /\ validateCalls # <<>>) =>
         sessionOpts.useActiveEditorAsSource =
           lastAsked.cmdDef.useActiveEditorAsSource)

\* A pass whose only command has the flag and was rejected: the mode fell
\* back to Standard and the flag of the rejected command is on the session.
FlagOfRejectedCommandStays ==
  /\ pc = "done"
  /\ ~wasCommandValidated
  /\ inputInfo.mode = Standard
  /\ validateCalls # <<>>
  /\ lastAsked.cmdDef.useActiveEditorAsSource = "true"
  /\ sessionOpts.useActiveEditorAsSource = "true"

\* A pass that asked no handler, on a session that has the flag of an
\* earlier pass.
FlagKeptWithoutHandler ==
  /\ pc = "done"
  /\ validateCalls = <<>>
  /\ sessionOpts.useActiveEditorAsSource = "true"

\* ---------------------------------------------------------------------------
\* Definitions with the same trigger
\* ---------------------------------------------------------------------------

\* The positions in the definitions list of the definitions with this
\* command string.
definedAt(cmdStr) ==
  {n \in 1..Len(commandDefinitions) : commandDefinitions[n].cmdStr = cmdStr}

\* The definition that comes first among those with this command string.
firstDefinitionOf(cmdStr) ==
  commandDefinitions[CHOOSE n \in definedAt(cmdStr) :
                       \A m \in definedAt(cmdStr) : n <= m]

\* The definitions that have the command string of an earlier definition.
shadowedDefinitions ==
  {commandDefinitions[n] : n \in
     {m \in 1..Len(commandDefinitions) :
        /\ Len(commandDefinitions[m].cmdStr) > 0
        /\ \E k \in 1..(m - 1) :
             commandDefinitions[k].cmdStr = commandDefinitions[m].cmdStr}}

\* C29: when two definitions have the same non-empty trigger string, every
\* occurrence of it is attributed to the definition that comes first in the
\* definitions list, and the later one never appears in a found or resolved
\* command nor is its handler asked on its behalf.
FirstDefinitionTakesSharedTrigger ==
  /\ \A n \in 1..Len(scan.foundCommands) :
       /\ scan.foundCommands[n].cmdDef
            = firstDefinitionOf(scan.foundCommands[n].cmdStr)
       /\ scan.foundCommands[n].cmdDef \notin shadowedDefinitions
  /\ \A n \in 1..Len(resolvedCommands) :
       /\ resolvedCommands[n].cmdDef
            = firstDefinitionOf(resolvedCommands[n].cmdStr)
       /\ resolvedCommands[n].cmdDef \notin shadowedDefinitions
  /\ \A j \in 1..Len(validateCalls) :
       validateCalls[j].handler =
         getHandler(handlerRegistry,
                    firstDefinitionOf(
                      resolvedCommands[validateCalls[j].position].cmdStr).mode)

\* A pass over an input with the trigger that the symbol command and the
\* related items command share: the symbol handler was asked and validated.
SharedTriggerWentToFirstDefinition ==
  /\ pc = "done"
  /\ wasCommandValidated
  /\ Cardinality(definedAt(winner.cmdStr)) = 2
  /\ winner.cmdDef = SymbolDef
  /\ RelatedItemsSameDef \in shadowedDefinitions
  /\ winningCall.handler = "SymbolList"

\* ---------------------------------------------------------------------------
\* Indices in the clean input
\* ---------------------------------------------------------------------------

\* An escape marker followed at once by a configured trigger stands at index
\* p of the raw input.
isEscapedTriggerAt(p) ==
  /\ startsWith(inputInfo.inputText, escapeCmdChar, p)
  /\ triggersAt(inputInfo.inputText, p + Len(escapeCmdChar)) # {}

\* The number of escaped triggers the scan read before index p of the raw
\* input.
escapedBefore(read, p) ==
  Cardinality({n \in 1..Len(read) :
                 read[n].start < p /\ isEscapedTriggerAt(read[n].start)})

\* C30: for every command recorded by parse, indexInCleanInput is its start
\* index in the raw input minus the length of the escape marker times the
\* number of escaped triggers before it, and the clean input is shorter than
\* the raw input read so far (the whole input once the scan has ended) by the
\* length of the escape marker times the number of escaped triggers.
CleanIndexIsRawIndexLessEscapes ==
  LET read == spans
      commandSpans == commandsOf(read)
      escapeLen == Len(escapeCmdChar)
  IN /\ Len(commandSpans) = Len(scan.foundCommands)
     /\ \A k \in 1..Len(scan.foundCommands) :
          scan.foundCommands[k].indexInCleanInput =
            commandSpans[k].start
              - escapeLen * escapedBefore(read, commandSpans[k].start)
     /\ Len(scan.cleanInput) = scan.i - escapeLen * escapedBefore(read, scan.i)
     /\ parsed =>
          Len(inputInfo.cleanInput) =
            Len(inputInfo.inputText)
              - escapeLen * escapedBefore(read, Len(inputInfo.inputText))

\* A command found behind an escaped trigger, with an escape marker of two
\* code units: its index in the clean input is two less than in the raw input.
CommandBehindLongEscapeMarker ==
  /\ parsed
  /\ Len(escapeCmdChar) = 2
  /\ LET read == spans
         commandSpans == commandsOf(read)
     IN /\ Len(commandSpans) = 1
        /\ escapedBefore(read, commandSpans[1].start) = 1
        /\ scan.foundCommands[1].indexInCleanInput
             = commandSpans[1].start - 2
        /\ Len(inputInfo.cleanInput) = Len(inputInfo.inputText) - 2

\* ---------------------------------------------------------------------------
\* The modal: opening, input, suggestions
\* ---------------------------------------------------------------------------

\* What the user types into the input field.
TypedInputs ==
  {<<"b">>, <<"b", "a">>, <<"a">>, <<"H", "L">>, <<>>}

\* handler.getCommandString(sessionOpts): the command string of the mode's
\* definition.
getCommandString(mode) ==
  LET defined == {n \in 1..Len(commandDefinitions) :
                    commandDefinitions[n].mode = mode}
  IN IF defined = {} THEN <<>>
     ELSE commandDefinitions[CHOOSE n \in defined :
                               \A m \in defined : n <= m].cmdStr

\* A setInitialInputForSession that does not clear the session's mode.
setInitialInputForSessionKeepsMode(mode, value) ==
  IF mode = "null" THEN [mode |-> mode, value |-> value]
  ELSE LET prevInputText == previousInputHistory[mode].inputText
           commandString ==
             IF mode # Standard THEN getCommandString(mode) ELSE <<>>
           shouldPreserveInput ==
             \/ mode = "CommandList"
                  /\ settings.preserveCommandPaletteLastInput
             \/ mode # "CommandList"
                  /\ settings.preserveQuickSwitcherLastInput
       IN [mode |-> mode,
           value |-> IF shouldPreserveInput /\ prevInputText # <<>>
                       THEN prevInputText
                     ELSE IF commandString # <<>> THEN commandString
                     ELSE value]

\* setInitialInputForSession(inputEl) on a session with this mode and an
\* input field with this value: the session's mode and the value afterwards.
setInitialInputForSession(mode, value) ==
  IF mode = "null" THEN [mode |-> mode, value |-> value]
  ELSE LET prevInputText == previousInputHistory[mode].inputText
           commandString ==
             IF mode # Standard THEN getCommandString(mode) ELSE <<>>
           shouldPreserveInput ==
             \/ mode = "CommandList"
                  /\ settings.preserveCommandPaletteLastInput
             \/ mode # "CommandList"
                  /\ settings.preserveQuickSwitcherLastInput
       IN [mode |-> "null",
           value |-> IF shouldPreserveInput /\ prevInputText # <<>>
                       THEN prevInputText
                     ELSE IF commandString # <<>> THEN commandString
                     ELSE value]

\* determineRunMode(query): what the call can end with, which depends on
\* the handlers that are asked: the mode, the parsed input of that mode and
\* the flag left on the session. An empty query is not parsed: the mode
\* handler is reset. Otherwise either the handler of a resolved command takes
\* the command, or none does and the mode is Standard.
determineRunMode(query) ==
  IF query = <<>>
    THEN {[mode |-> Standard, cleanInput |-> <<>>, parsedInput |-> <<>>,
           useActiveEditorAsSource |-> "undefined"]}
  ELSE
    LET result == parse(commandMap, escapeCmdChar, query)
        resolved == result.resolvedCommands
        asked == {n \in 1..Len(resolved) :
                    getHandler(handlerRegistry, resolved[n].cmdDef.mode)
                      # "null"}
        last == CHOOSE n \in asked : \A m \in asked : m <= n
    IN {[mode |-> resolved[n].cmdDef.mode,
         cleanInput |-> result.cleanInput,
         parsedInput |-> resolved[n].filterText,
         useActiveEditorAsSource |->
           resolved[n].cmdDef.useActiveEditorAsSource] : n \in asked}
       \cup
       {[mode |-> Standard, cleanInput |-> result.cleanInput,
         parsedInput |-> <<>>,
         useActiveEditorAsSource |->
           IF asked = {} THEN sessionOpts.useActiveEditorAsSource
           ELSE resolved[last].cmdDef.useActiveEditorAsSource]}

\* The pending promises once a new updateSuggestions call has started: the
\* promise of the call before is now the promise of a superseded call.
superseded(promises) ==
  IF "current" \in promises
    THEN (promises \ {"current"}) \cup {"stale"}
    ELSE promises

\* The suggestions the chooser holds once a new call has started.
aged(suggestions) ==
  IF suggestions = "current" THEN "stale" ELSE suggestions

\* ModeHandler.getSuggestions of the current call: the chooser is emptied;
\* suggestions returned as an array are set at once, for a promise the
\* callbacks are registered.
getSuggestions(promises, isArray) ==
  IF isArray
    THEN /\ chooser' = "current"
         /\ delivered' = "current"
         /\ pending' = promises
    ELSE /\ chooser' = "empty"
         /\ delivered' = "none"
         /\ pending' = promises \cup {"current"}

\* The modal's updateSuggestions, called with this session mode and this
\* value of the input field: setInitialInputForSession, then
\* ModeHandler.updateSuggestions with the value of the input field, which
\* cancels a pending debounced call, determines the mode, stores the input
\* in the history of that mode and asks for the suggestions; what it does
\* not handle goes to the built-in switcher, which sets its suggestions at
\* once.
updateSuggestions(sessionModeNow, value, sinceOpen) ==
  LET initial == setInitialInputForSession(sessionModeNow, value)
      query == initial.value
  IN \E run \in determineRunMode(query) :
       /\ inputEl' = query
       /\ sessionMode' = initial.mode
       /\ initialInput' =
            [mode |-> sessionModeNow, before |-> value, after |-> query,
             calls |-> IF sinceOpen.calls < 2 THEN sinceOpen.calls + 1 ELSE 2,
             writes |-> IF sessionModeNow # "null" /\ sinceOpen.writes < 2
                          THEN sinceOpen.writes + 1
                          ELSE sinceOpen.writes]
       /\ inputInfo' = [inputText |-> query, cleanInput |-> run.cleanInput,
                        mode |-> run.mode]
       /\ sessionOpts' =
            [useActiveEditorAsSource |-> run.useActiveEditorAsSource]
       /\ previousInputHistory' =
            [previousInputHistory EXCEPT
               ![run.mode] = [has |-> TRUE, inputText |-> query]]
       /\ handled' = (run.mode # Standard)
       /\ superUpdateSuggestions' = (run.mode = Standard)
       /\ IF run.mode = Standard
            THEN /\ requested' = "none"
                 /\ debounced' = FALSE
                 /\ chooser' = "current"
                 /\ delivered' = "current"
                 /\ pending' = superseded(pending)
          ELSE IF run.mode = "HeadingsList" /\ Len(run.parsedInput) > 0
            THEN /\ requested' = "debouncedGetSuggestions"
                 /\ debounced' = TRUE
                 /\ chooser' = aged(chooser)
                 /\ delivered' = "none"
                 /\ pending' = superseded(pending)
          ELSE /\ requested' = "getSuggestions"
               /\ debounced' = FALSE
               /\ \E isArray \in BOOLEAN :
                    getSuggestions(superseded(pending), isArray)

\* The variables a call of the modal leaves alone: the parser and its
\* registry, and what is local to the steps of a parsing pass.
passVars ==
  <<parserVars, registryVars, scan, resolvedCommands, next,
    wasCommandValidated, validateCalls, resetCalls, resetHandlers, pc>>

\* openInMode(sessionOpts): setSessionOpenMode resets the mode handler,
\* empties the chooser and stores the session options; open() registers the
\* keydown listener, empties the input field and calls updateSuggestions.
OpenInMode(mode) ==
  /\ pc = "idle"
  /\ ~isOpen
  /\ isOpen' = TRUE
  /\ updateSuggestions(mode, <<>>, NoCalls)
  /\ UNCHANGED <<passVars, isMacOS, keydown, settings>>

\* open() without session options, as the built-in switcher command does.
ModalOpen ==
  /\ pc = "idle"
  /\ keydown = NoKeydown
  /\ ~isOpen
  /\ isOpen' = TRUE
  /\ updateSuggestions(sessionMode, <<>>, initialInput)
  /\ UNCHANGED <<passVars, isMacOS, keydown, settings>>

\* The user changes the text of the input field of the open modal.
InputChanged(text) ==
  /\ pc = "idle"
  /\ isOpen
  /\ text # inputEl
  /\ updateSuggestions(sessionMode, text, initialInput)
  /\ UNCHANGED <<passVars, isOpen, isMacOS, keydown, settings>>

\* close(): onClose removes the keydown listener. Neither the debounced
\* call nor a pending promise is cancelled.
ModalClose ==
  /\ pc = "idle"
  /\ keydown = NoKeydown
  /\ isOpen
  /\ isOpen' = FALSE
  /\ UNCHANGED <<passVars, modalVars, inputInfo, sessionOpts, isMacOS,
                 keydown, sessionVars, fetchVars>>

\* The timer of the debounced call runs out: getSuggestions is called for
\* the call that set the timer, which is the current call, since every call
\* cancels the timer first.
DebounceFires ==
  /\ pc = "idle"
  /\ debounced
  /\ debounced' = FALSE
  /\ \E isArray \in BOOLEAN : getSuggestions(pending, isArray)
  /\ UNCHANGED <<passVars, modalVars, inputInfo, sessionOpts, hotkeyVars,
                 sessionVars>>

\* The suggestions promise of a call is fulfilled: its callback hands the
\* values to the chooser.
PromiseFulfilled(call) ==
  /\ pc = "idle"
  /\ call \in pending
  /\ pending' = pending \ {call}
  /\ chooser' = call
  /\ delivered' = call
  /\ UNCHANGED <<passVars, modalVars, inputInfo, sessionOpts, hotkeyVars,
                 sessionVars, debounced>>

\* The suggestions promise of a call is rejected: the reason is logged.
PromiseRejected(call) ==
  /\ pc = "idle"
  /\ call \in pending
  /\ pending' = pending \ {call}
  /\ UNCHANGED <<passVars, modalVars, inputInfo, sessionOpts, hotkeyVars,
                 sessionVars, debounced, chooser, delivered>>

\* The modes a modal of this configuration is opened in.
OpenModes == {"Standard", "HeadingsList", "SymbolList"}

SwitcherNext ==
  \/ \E mode \in OpenModes : OpenInMode(mode)
  \/ ModalOpen
  \/ \E text \in TypedInputs : InputChanged(text)
  \/ ModalClose
  \/ DebounceFires
  \/ \E call \in {"current", "stale"} : PromiseFulfilled(call)
  \/ \E call \in {"current", "stale"} : PromiseRejected(call)

\* The modal of the configuration with the headings command, with any
\* setting of preserveQuickSwitcherLastInput.
SwitcherInit ==
  /\ InitParser
  /\ commandDefinitions = <<StandardDef, HeadingsDef, EmojiSymbolDef>>
  /\ \E options \in Settings :
       /\ ~options.preserveCommandPaletteLastInput
       /\ InitSwitcher(FALSE, options)

SwitcherSpec == SwitcherInit /\ [][SwitcherNext]_vars

\* ---------------------------------------------------------------------------
\* The session mode and the input field
\* ---------------------------------------------------------------------------

\* settings: the last input of the mode is to be preserved.
shouldPreserveInput(mode) ==
  IF mode = "CommandList" THEN settings.preserveCommandPaletteLastInput
  ELSE settings.preserveQuickSwitcherLastInput

\* A step with a setInitialInputForSession call: the session's mode is
\* cleared; with a session mode, the call is the first one since
\* setSessionOpenMode and the input field then holds the preserved last input
\* of the mode, or else the command string of the mode, or else what it held;
\* without one the input field keeps its value.
SetInitialInputStep ==
  initialInput' # initialInput =>
    LET call == initialInput'
    IN /\ sessionMode' = "null"
       /\ inputEl' = call.after
       /\ call.mode = "null" => call.after = call.before
       /\ call.mode # "null" =>
            /\ call.calls = 1
            /\ call.writes = 1
            /\ call.after \in
                 {previousInputHistory[call.mode].inputText,
                  getCommandString(call.mode), call.before}
            /\ call.after = previousInputHistory[call.mode].inputText =>
                 \/ shouldPreserveInput(call.mode)
                 \/ call.after \in {getCommandString(call.mode), call.before}
            /\ (call.after = call.before /\ call.before = <<>>) =>
                 getCommandString(call.mode) = <<>>

\* C25: after setSessionOpenMode with a session mode, setInitialInputForSession
\* takes effect at most once: the first call may write the input field (the
\* preserved previous input of that mode, or else the mode's command string)
\* and clears the session mode; every later call before the next
\* setSessionOpenMode leaves the input field unchanged.
InitialInputSetOncePerSession ==
  /\ [][SetInitialInputStep]_vars
  /\ [](initialInput.writes <= 1)
  /\ [](initialInput.calls >= 1 => sessionMode = "null")

\* The modal was opened in headings mode and wrote the preserved last input
\* of that mode; the user has typed since, and that call left the typed text
\* in the input field.
LaterCallLeftTypedInput ==
  /\ isOpen
  /\ settings.preserveQuickSwitcherLastInput
  /\ initialInput.calls = 2
  /\ initialInput.writes = 1
  /\ initialInput.mode = "null"
  /\ initialInput.after = initialInput.before
  /\ inputEl = <<"a">>
  /\ previousInputHistory["HeadingsList"].inputText = <<"b", "a">>

\* The modal was just opened in headings mode and its input field holds the
\* preserved last input of that mode, not the command string.
PreservedInputWritten ==
  /\ isOpen
  /\ initialInput.mode = "HeadingsList"
  /\ initialInput.calls = 1
  /\ initialInput.before = <<>>
  /\ inputEl = <<"b", "a">>
  /\ getCommandString("HeadingsList") = <<"b">>

\* ---------------------------------------------------------------------------
\* Suggestions of a superseded call
\* ---------------------------------------------------------------------------

\* C22: when a new updateSuggestions call supersedes an earlier one, the
\* suggestions of the earlier call's still pending fetch (a debounced
\* getSuggestions call or an unresolved suggestions promise) are never
\* delivered to the chooser after the newer call has started.
StaleSuggestionsNeverDelivered ==
  delivered # "stale"

\* ---------------------------------------------------------------------------
\* The global hotkeys of the open modal
\* ---------------------------------------------------------------------------

\* The longest list that app.commands.listCommands() returns here.
MaxCommands == 2

\* The hotkeys that the commands are given here.
Hotkeys ==
  { [key |-> "k", modifiers |-> <<>>],
    [key |-> "K", modifiers |-> <<"Mod">>],
    [key |-> "b", modifiers |-> <<"Shift", "Ctrl">>] }

\* What app.hotkeyManager.getHotkeys(id) returns: null, something that is
\* not an array, or an array of hotkeys.
HotkeyLists ==
  {[kind |-> "null", items |-> <<>>], [kind |-> "string", items |-> <<>>],
   [kind |-> "array", items |-> <<>>]}
  \cup {[kind |-> "array", items |-> <<hotkey>>] : hotkey \in Hotkeys}
  \cup {[kind |-> "array", items |-> pair] :
          pair \in {two \in Hotkeys \X Hotkeys : two[1] # two[2]}}

\* app.commands.listCommands() with the hotkeys of each command; the id of a
\* command is its place in the list.
CommandLists ==
  UNION {[1..n -> HotkeyLists] : n \in 0..MaxCommands}

KeyboardEvents ==
  [key : {"k", "K", "b"}, ctrlKey : BOOLEAN, metaKey : BOOLEAN,
   altKey : BOOLEAN, shiftKey : BOOLEAN]

\* String.prototype.toLowerCase() on the keys above.
toLowerCase(key) ==
  IF key = "K" THEN "k" ELSE key

\* The modifier list that handleGlobalHotkey builds from the event.
eventModifiers(evt) ==
  (IF evt.ctrlKey THEN <<"Ctrl">> ELSE <<>>)
    \o (IF evt.metaKey THEN <<"Meta">> ELSE <<>>)
    \o (IF evt.altKey THEN <<"Alt">> ELSE <<>>)
    \o (IF evt.shiftKey THEN <<"Shift">> ELSE <<>>)

\* Array.prototype.sort() on modifier names: in the order of their code
\* units.
sortModifiers(modifiers) ==
  SelectSeq(modifiers, LAMBDA mod : mod = "Alt")
    \o SelectSeq(modifiers, LAMBDA mod : mod = "Ctrl")
    \o SelectSeq(modifiers, LAMBDA mod : mod = "Meta")
    \o SelectSeq(modifiers, LAMBDA mod : mod = "Mod")
    \o SelectSeq(modifiers, LAMBDA mod : mod = "Shift")

\* hotkeyMatches(hotkey, evt, modifiers)
hotkeyMatches(hotkey, evt, modifiers) ==
  IF toLowerCase(hotkey.key) # toLowerCase(evt.key) THEN FALSE
  ELSE LET hotkeyModifiers ==
             [n \in 1..Len(hotkey.modifiers) |->
                IF hotkey.modifiers[n] = "Mod"
                  THEN IF isMacOS THEN "Meta" ELSE "Ctrl"
                  ELSE hotkey.modifiers[n]]
       IN IF Len(hotkeyModifiers) # Len(modifiers) THEN FALSE
          ELSE sortModifiers(hotkeyModifiers) = sortModifiers(modifiers)

\* A handler that executes the command and then closes the modal.
runCommandThenClose(id) ==
  <<[op |-> "preventDefault", id |-> 0], [op |-> "stopPropagation", id |-> 0],
    [op |-> "executeCommandById", id |-> id], [op |-> "close", id |-> 0]>>

\* What handleGlobalHotkey does for the command with a matching hotkey.
runCommand(id) ==
  <<[op |-> "preventDefault", id |-> 0], [op |-> "stopPropagation", id |-> 0],
    [op |-> "close", id |-> 0], [op |-> "executeCommandById", id |-> id]>>

RECURSIVE commandsFrom(_, _, _)
\* The loop of handleGlobalHotkey over the commands, from the n-th on: a
\* command without an array of hotkeys is passed over; the first command
\* with a matching hotkey is run and the handler returns.
commandsFrom(commands, n, evt) ==
  IF n > Len(commands) THEN <<>>
  ELSE LET hotkeys == commands[n]
       IN IF hotkeys.kind # "array"
            THEN commandsFrom(commands, n + 1, evt)
          ELSE IF \E j \in 1..Len(hotkeys.items) :
                    hotkeyMatches(hotkeys.items[j], evt, eventModifiers(evt))
            THEN runCommand(n)
          ELSE commandsFrom(commands, n + 1, evt)

\* handleGlobalHotkey(evt): what the handler does, in order.
handleGlobalHotkey(commands, evt) ==
  commandsFrom(commands, 1, evt)

closes(effects) ==
  \E n \in 1..Len(effects) : effects[n].op = "close"

\* A keydown event reaches the listener of the open modal. close() runs
\* onClose, which removes the listener.
Keydown ==
  /\ pc = "idle"
  /\ keydown = NoKeydown
  /\ isOpen
  /\ \E evt \in KeyboardEvents : \E commands \in CommandLists :
       LET effects == handleGlobalHotkey(commands, evt)
       IN /\ keydown' = [evt |-> evt, commands |-> commands,
                         effects |-> effects]
          /\ isOpen' = ~closes(effects)
  /\ UNCHANGED <<passVars, modalVars, inputInfo, sessionOpts, isMacOS,
                 sessionVars, fetchVars>>

\* The listener has returned: the event is over.
KeydownHandled ==
  /\ pc = "idle"
  /\ keydown # NoKeydown
  /\ keydown' = NoKeydown
  /\ UNCHANGED <<passVars, modalVars, inputInfo, sessionOpts, isOpen, isMacOS,
                 sessionVars, fetchVars>>

HotkeyNext ==
  \/ ModalOpen
  \/ ModalClose
  \/ Keydown
  \/ KeydownHandled

\* The modal on either platform.
HotkeyInit ==
  /\ InitParser
  /\ commandDefinitions = <<StandardDef, EditorDef, SymbolDef, WorkspaceDef>>
  /\ \E macOS \in BOOLEAN : InitSwitcher(macOS, DefaultSettings)

HotkeySpec == HotkeyInit /\ [][HotkeyNext]_vars

\* The commands of the last keydown event that have a hotkey matching it.
matchingCommands ==
  {n \in 1..Len(keydown.commands) :
     /\ keydown.commands[n].kind = "array"
     /\ \E j \in 1..Len(keydown.commands[n].items) :
          hotkeyMatches(keydown.commands[n].items[j], keydown.evt,
                        eventModifiers(keydown.evt))}

\* The places in the effects of the last keydown event where this is done.
placesOf(op) ==
  {n \in 1..Len(keydown.effects) : keydown.effects[n].op = op}

\* C21: for each keydown event while the modal is open, handleGlobalHotkey
\* executes at most one command: the first command in list order that has a
\* hotkey matching the event, and it closes the modal before executing it;
\* when no command has a matching hotkey, a command whose hotkeys are null or
\* not an array having none, it neither closes the modal nor executes any
\* command.
HotkeyRunsFirstMatchingCommand ==
  /\ Cardinality(placesOf("executeCommandById")) <= 1
  /\ Cardinality(placesOf("close")) <= 1
  /\ \A n \in placesOf("executeCommandById") :
       /\ keydown.effects[n].id \in matchingCommands
       /\ \A m \in matchingCommands : keydown.effects[n].id <= m
       /\ keydown.commands[keydown.effects[n].id].kind = "array"
       /\ \E c \in placesOf("close") : c < n
  /\ matchingCommands # {} =>
       /\ placesOf("executeCommandById") # {}
       /\ ~isOpen
  /\ matchingCommands = {} => keydown.effects = <<>>
  /\ (keydown # NoKeydown /\ keydown.effects = <<>>) => isOpen

\* The event matched a hotkey of the second command only after the first
\* command, whose hotkeys are null, was passed over: the modal was closed and
\* the second command executed.
SecondCommandRunAfterNullHotkeys ==
  /\ ~isOpen
  /\ Len(keydown.commands) = 2
  /\ keydown.commands[1].kind = "null"
  /\ matchingCommands = {2}
  /\ keydown.effects = runCommand(2)

\* Both commands have a hotkey matching the event: the first one was
\* executed.
FirstOfTwoMatchingCommandsRun ==
  /\ matchingCommands = {1, 2}
  /\ placesOf("executeCommandById") # {}
  /\ \A n \in placesOf("executeCommandById") : keydown.effects[n].id = 1

====
